---- MODULE Spec2Model ----
(***************************************************************************)
(* Model of the Groq relay backend (groq-hexagonal-api).                   *)
(*                                                                         *)
(*   transport  : SetupRouter, ChatHandler (HandleChat, HandleGetModels,   *)
(*                HandleHealth), the DTOs and ChatRequest.Validate         *)
(*   application: ChatServiceImpl (SendMessage, GetAvailableModels)        *)
(*   gateway    : GroqClient (CreateChatCompletion, ListModels, doRequest) *)
(*                                                                         *)
(* A request is handled by one goroutine.  The only place where a handler  *)
(* blocks is httpClient.Do in doRequest, so a handler is split in two      *)
(* steps: Serve (everything up to the outbound call, or up to the reply    *)
(* when no outbound call is made) and UpstreamReply (everything after the  *)
(* outbound call returned).                                                *)
(*                                                                         *)
(* Values.  A Go string is a TLA+ string.  A nil-able pointer is a         *)
(* sequence of length 0 (nil) or 1.  A JSON document is either the record  *)
(* [garbage |-> s] (bytes that are not JSON) or [obj |-> o] where o is a   *)
(* record whose fields are the members that are present; a JSON string is  *)
(* [s |-> ...], a JSON number [n |-> ...], a JSON array [a |-> <<...>>]    *)
(* and a JSON object [o |-> record].  An error is a record [text, is]:     *)
(* text is the sequence of pieces Error() prints, is the set of errors     *)
(* errors.Is reports for it (its %w chain).                                *)
(***************************************************************************)
EXTENDS Integers, Sequences, FiniteSets, Bags, TLC

VARIABLES
    defaultModel,   \* ChatServiceImpl.defaultModel
    client,         \* GroqClient fields: baseURL, apiKey, httpClient.Timeout
    inflight,       \* bag of the goroutines blocked in httpClient.Do
    last,           \* the exchange that completed most recently
    svcCalls,       \* number of ChatService calls made so far
    gwCalls,        \* number of GroqRepository calls made so far
    upCalls,        \* number of outbound HTTP calls made so far
    main,           \* the process: where main is, and the panics it has logged
    ui              \* the state of the App component in the browser

vars == <<defaultModel, client, inflight, last, svcCalls, gwCalls, upCalls, main, ui>>

\* ------------------------------------------------------------------------
\* Bounds
\* ------------------------------------------------------------------------

\* number of handlers blocked on the network at the same time
MaxInFlight == 1

\* the same number where the claim is about handlers that run side by side
MaxConcurrent == 2

\* cap on the call counters
MaxCalls == 2

\* the same cap where the requests are drawn from the whole set of inputs
MaxServed == 1

\* ------------------------------------------------------------------------
\* Errors
\* ------------------------------------------------------------------------

Lit(s) == [lit |-> s]

\* errors.New(s); id names the error value, which is what errors.Is compares
NewError(id, s) == [text |-> <<Lit(s)>>, is |-> {id}]

\* fmt.Errorf(prefix + ": %v", e): the text of e without the link to it
WrapOpaque(prefix, e) == [text |-> <<Lit(prefix)>> \o e.text, is |-> {}]


\* fmt.Errorf(prefix + ": %w", e)
Wrap(prefix, e) == [text |-> <<Lit(prefix)>> \o e.text, is |-> e.is]

\* application package sentinels
AppErrEmptyMessage == NewError("application.ErrEmptyMessage", "el mensaje no puede estar vacío")
AppErrEmptyModel == NewError("application.ErrEmptyModel", "el modelo no puede estar vacío")
AppErrNoChoices == NewError("application.noChoices", "la respuesta no contiene opciones")

\* http package validation errors
ErrEmptyMessage == NewError("http.ErrEmptyMessage", "el mensaje no puede estar vacío")
ErrInvalidTemperature == NewError("http.ErrInvalidTemperature", "la temperatura debe estar entre 0 y 2")
ErrInvalidMaxTokens == NewError("http.ErrInvalidMaxTokens", "max_tokens debe ser mayor o igual a 0")

\* errors produced by the standard library
ErrJSONSyntax == NewError("json.SyntaxError", "invalid character")
ErrJSONEnd == NewError("json.SyntaxError", "unexpected end of JSON input")
ErrEOF == NewError("io.EOF", "EOF")
ErrJSONType == NewError("json.UnmarshalTypeError", "json: cannot unmarshal")
ErrTimeNotString == NewError("time.UnmarshalJSON", "Time.UnmarshalJSON: input is not a JSON string")
ErrDeadline == NewError("context.DeadlineExceeded", "context deadline exceeded")
ErrConnRefused == NewError("syscall.ECONNREFUSED", "connection refused")
ErrCanceled == NewError("context.Canceled", "context canceled")
ErrBodyRead == NewError("io.ErrUnexpectedEOF", "unexpected EOF")
ErrIOTimeout == NewError("os.ErrDeadlineExceeded", "i/o timeout")
ErrReadDeadline ==
    [text |-> <<Lit("context deadline exceeded (Client.Timeout or context cancellation while reading body)")>>,
     is |-> {"context.DeadlineExceeded"}]

\* a result of a Go function returning (value, error)
Ok(v) == [val |-> <<v>>, err |-> <<>>]
Fail(e) == [val |-> <<>>, err |-> <<e>>]
IsOk(r) == r.err = <<>>

\* ------------------------------------------------------------------------
\* encoding/json, as far as the program uses it
\* ------------------------------------------------------------------------

JStr(s) == [s |-> s]
JNum(n) == [n |-> n]
JArr(a) == [a |-> a]
JObj(o) == [o |-> o]

IsJStr(v) == DOMAIN v = {"s"}
IsJNum(v) == DOMAIN v = {"n"}
IsJArr(v) == DOMAIN v = {"a"}
IsJObj(v) == DOMAIN v = {"o"}

Has(o, f) == f \in DOMAIN o

\* the members of object o named in fs are absent or satisfy their type
WellTyped(o, strs, nums, arrs, objs) ==
    /\ \A f \in strs : Has(o, f) => IsJStr(o[f])
    /\ \A f \in nums : Has(o, f) => IsJNum(o[f])
    /\ \A f \in arrs : Has(o, f) => IsJArr(o[f])
    /\ \A f \in objs : Has(o, f) => IsJObj(o[f])

StrField(o, f) == IF Has(o, f) THEN o[f].s ELSE ""
NumField(o, f) == IF Has(o, f) THEN o[f].n ELSE 0
PtrField(o, f) == IF Has(o, f) THEN <<o[f].n>> ELSE <<>>

\* ------------------------------------------------------------------------
\* domain/chat.go
\* ------------------------------------------------------------------------

NewChatMessage(role, content) == [Role |-> role, Content |-> content]

NewChatRequest(model, messages) ==
    [Messages |-> messages, Model |-> model, Temperature |-> <<>>, MaxTokens |-> 0]

\* ChatRequest.AddMessage
AddMessage(r, role, content) ==
    [r EXCEPT !.Messages = Append(@, NewChatMessage(role, content))]

\* ChatRequest.SetTemperature and ChatRequest.SetMaxTokens
SetTemperature(r, temp) == [r EXCEPT !.Temperature = <<temp>>]
SetMaxTokens(r, max) == [r EXCEPT !.MaxTokens = max]

\* GetResponseContent reading the last choice
GetResponseContentLast(c) ==
    IF Len(c.Choices) > 0 THEN c.Choices[Len(c.Choices)].Message.Content ELSE ""

GetResponseContent(c) ==
    IF Len(c.Choices) > 0 THEN c.Choices[1].Message.Content ELSE ""

\* ------------------------------------------------------------------------
\* infrastructure/http: DTOs
\* ------------------------------------------------------------------------

StatusOK == 200
StatusNoContent == 204
StatusBadRequest == 400
StatusNotFound == 404
StatusMethodNotAllowed == 405
StatusInternalServerError == 500

\* json.NewDecoder(r.Body).Decode(&req) for the ChatRequest DTO.  The
\* decoder returns the error of the read when the body cannot be read, and
\* io.EOF when the body ends before any value
DecodeChatRequest(body) ==
    IF Has(body, "readerr") THEN Fail(body.readerr)
    ELSE IF Has(body, "garbage") /\ body.garbage = "" THEN Fail(ErrEOF)
    ELSE IF Has(body, "garbage") THEN Fail(ErrJSONSyntax)
    ELSE IF ~WellTyped(body.obj, {"message", "model"}, {"temperature", "max_tokens"}, {}, {})
    THEN Fail(ErrJSONType)
    ELSE Ok([Message |-> StrField(body.obj, "message"),
             Model |-> StrField(body.obj, "model"),
             Temperature |-> PtrField(body.obj, "temperature"),
             MaxTokens |-> NumField(body.obj, "max_tokens")])

\* Validate with the temperature bounds excluded
ValidateExclusive(r) ==
    IF r.Message = "" THEN <<ErrEmptyMessage>>
    ELSE IF r.Temperature # <<>> /\ (r.Temperature[1] <= 0 \/ r.Temperature[1] >= 2)
    THEN <<ErrInvalidTemperature>>
    ELSE IF r.MaxTokens < 0 THEN <<ErrInvalidMaxTokens>>
    ELSE <<>>

\* Validate taking a message of blanks for an empty one
ValidateTrimming(r) ==
    IF r.Message \in {"", " "} THEN <<ErrEmptyMessage>>
    ELSE IF r.Temperature # <<>> /\ (r.Temperature[1] < 0 \/ r.Temperature[1] > 2)
    THEN <<ErrInvalidTemperature>>
    ELSE IF r.MaxTokens < 0 THEN <<ErrInvalidMaxTokens>>
    ELSE <<>>


\* ChatRequest.Validate: <<>> is nil
Validate(r) ==
    IF r.Message = "" THEN <<ErrEmptyMessage>>
    ELSE IF r.Temperature # <<>> /\ (r.Temperature[1] < 0 \/ r.Temperature[1] > 2)
    THEN <<ErrInvalidTemperature>>
    ELSE IF r.MaxTokens < 0 THEN <<ErrInvalidMaxTokens>>
    ELSE <<>>

NewChatResponse(message, model, usage) ==
    [success |-> TRUE, message |-> message, model |-> model, usage |-> usage]

NewModelsResponse(models) == [success |-> TRUE, models |-> models]

NewErrorResponse(message, code) == [success |-> FALSE, error |-> message, code |-> code]

NewHealthResponse(status, service, timestamp) ==
    [status |-> status, service |-> service, timestamp |-> timestamp]

\* json.Encoder.Encode of a response DTO: a member tagged omitempty is left
\* out when it holds the zero value of its type: the models of a
\* ModelsResponse when the list is empty, the code of an ErrorResponse when
\* it is 0.  (The usage of a ChatResponse is never nil and the error of a
\* successful response is "": the records built by NewChatResponse and
\* NewModelsResponse have no member error.)
Encode(data) ==
    LET omitted == { f \in DOMAIN data :
                       \/ f = "models" /\ Len(data[f]) = 0
                       \/ f = "code" /\ data[f] = 0 }
    IN [f \in DOMAIN data \ omitted |-> data[f]]

\* ChatHandler.writeJSONResponse: what the client receives
writeJSONResponse(data, statusCode) == [status |-> statusCode, body |-> Encode(data)]

\* ChatHandler.writeErrorResponse
writeErrorResponse(message, statusCode) ==
    writeJSONResponse(NewErrorResponse(message, statusCode), statusCode)

\* ------------------------------------------------------------------------
\* application: ChatServiceImpl
\* ------------------------------------------------------------------------

\* SendMessage without the substitution of the default model
SendMessageRequestNoDefault(dflt, message, model) ==
    IF Len(message) = 0 THEN [err |-> <<AppErrEmptyMessage>>, request |-> <<>>]
    ELSE IF model = "" THEN [err |-> <<AppErrEmptyModel>>, request |-> <<>>]
    ELSE [err |-> <<>>,
          request |-> <<NewChatRequest(model, <<NewChatMessage("user", message)>>)>>]

\* SendMessage without the check of the message
SendMessageRequestUnchecked(dflt, message, model) ==
    LET m == IF model = "" THEN dflt ELSE model IN
    IF m = "" THEN [err |-> <<AppErrEmptyModel>>, request |-> <<>>]
    ELSE [err |-> <<>>,
          request |-> <<NewChatRequest(m, <<NewChatMessage("user", message)>>)>>]

\* SendMessage trimming the message before the check, as its comment says
SendMessageRequestTrimmed(dflt, message, model) ==
    LET m == IF model = "" THEN dflt ELSE model IN
    IF message \in {"", " "} THEN [err |-> <<AppErrEmptyMessage>>, request |-> <<>>]
    ELSE IF m = "" THEN [err |-> <<AppErrEmptyModel>>, request |-> <<>>]
    ELSE [err |-> <<>>,
          request |-> <<NewChatRequest(m, <<NewChatMessage("user", message)>>)>>]

\* SendMessage putting a system message before the user's
SendMessageRequestWithSystem(dflt, message, model) ==
    LET m == IF model = "" THEN dflt ELSE model IN
    IF Len(message) = 0 THEN [err |-> <<AppErrEmptyMessage>>, request |-> <<>>]
    ELSE IF m = "" THEN [err |-> <<AppErrEmptyModel>>, request |-> <<>>]
    ELSE [err |-> <<>>,
          request |-> <<NewChatRequest(m, <<NewChatMessage("system", "You are a helpful assistant."),
                                            NewChatMessage("user", message)>>)>>]

\* SendMessage setting a temperature on the request it builds
SendMessageRequestWarm(dflt, message, model) ==
    LET m == IF model = "" THEN dflt ELSE model IN
    IF Len(message) = 0 THEN [err |-> <<AppErrEmptyMessage>>, request |-> <<>>]
    ELSE IF m = "" THEN [err |-> <<AppErrEmptyModel>>, request |-> <<>>]
    ELSE [err |-> <<>>,
          request |-> <<SetTemperature(NewChatRequest(m, <<NewChatMessage("user", message)>>), 1)>>]

\* SendMessage up to the call of the repository: either the error it
\* returns, or the request it hands to CreateChatCompletion
SendMessageRequest(dflt, message, model) ==
    LET m == IF model = "" THEN dflt ELSE model IN
    IF Len(message) = 0 THEN [err |-> <<AppErrEmptyMessage>>, request |-> <<>>]
    ELSE IF m = "" THEN [err |-> <<AppErrEmptyModel>>, request |-> <<>>]
    ELSE [err |-> <<>>,
          request |-> <<NewChatRequest(m, <<NewChatMessage("user", message)>>)>>]

\* SendMessage keeping the model of the call as the default of later calls
SendMessageFieldsRemembering(dflt, message, model) ==
    IF message # "" /\ model # "" THEN model ELSE dflt

\* the receiver's defaultModel when SendMessage returns or blocks in the
\* repository: SendMessage reads the field into a local and never assigns it
SendMessageFields(dflt, message, model) == dflt

\* SendMessage without the check of the choices
SendMessageResultUnchecked(r) ==
    IF ~IsOk(r) THEN Fail(Wrap("error al obtener respuesta de Groq", r.err[1]))
    ELSE r

\* SendMessage after the repository returned r
SendMessageResult(r) ==
    IF ~IsOk(r) THEN Fail(Wrap("error al obtener respuesta de Groq", r.err[1]))
    ELSE IF Len(r.val[1].Choices) = 0 THEN Fail(AppErrNoChoices)
    ELSE r

\* GetAvailableModels after the repository returned r
GetAvailableModelsResult(r) ==
    IF ~IsOk(r) THEN Fail(Wrap("error al obtener modelos", r.err[1]))
    ELSE r

\* ------------------------------------------------------------------------
\* infrastructure/groq: GroqClient
\* ------------------------------------------------------------------------

ChatCompletionsEndpoint == "/chat/completions"
ModelsEndpoint == "/models"
ContentTypeJSON == "application/json"

\* json.Marshal of a domain.ChatMessage
MarshalChatMessage(m) == JObj([role |-> JStr(m.Role), content |-> JStr(m.Content)])

\* json.Marshal of a domain.ChatRequest: temperature and max_tokens are
\* omitempty
MarshalChatRequest(r) ==
    LET base == [messages |-> JArr([i \in DOMAIN r.Messages |-> MarshalChatMessage(r.Messages[i])]),
                 model |-> JStr(r.Model)]
        temp == IF r.Temperature = <<>> THEN <<>>
                ELSE [temperature |-> JNum(r.Temperature[1])]
        maxt == IF r.MaxTokens = 0 THEN <<>> ELSE [max_tokens |-> JNum(r.MaxTokens)]
    IN [obj |-> base @@ temp @@ maxt]

\* doRequest, lines 181-210: the request given to httpClient.Do
doRequestSend(c, method, url, body) ==
    [method |-> method, url |-> url,
     header |-> [ContentType |-> ContentTypeJSON, Authorization |-> "Bearer " \o c.apiKey],
     body |-> body]

\* doRequest treating only the statuses from 400 on as failures
doRequestResultFrom400(reply) ==
    IF Has(reply, "neterr") THEN Fail(Wrap("error al ejecutar request", reply.neterr))
    ELSE IF reply.readerr # <<>> THEN Fail(Wrap("error al leer respuesta", reply.readerr[1]))
    ELSE IF reply.status >= 400
    THEN Fail([text |-> <<Lit("API retornó status "), [code |-> reply.status],
                          Lit(": "), [raw |-> reply.body]>>,
               is |-> {}])
    ELSE Ok(reply.body)

\* doRequest, lines 210-248: what it returns once httpClient.Do returned.
\* reply is [neterr |-> e] when Do failed, else [status, body, readerr]
doRequestResult(reply) ==
    IF Has(reply, "neterr") THEN Fail(Wrap("error al ejecutar request", reply.neterr))
    ELSE IF reply.readerr # <<>> THEN Fail(Wrap("error al leer respuesta", reply.readerr[1]))
    ELSE IF reply.status < 200 \/ reply.status >= 300
    THEN Fail([text |-> <<Lit("API retornó status "), [code |-> reply.status],
                          Lit(": "), [raw |-> reply.body]>>,
               is |-> {}])
    ELSE Ok(reply.body)

MessageTyped(v) == IsJObj(v) /\ WellTyped(v.o, {"role", "content"}, {}, {}, {})

ChoiceTyped(v) ==
    /\ IsJObj(v)
    /\ WellTyped(v.o, {"finish_reason"}, {"index"}, {}, {"message"})
    /\ Has(v.o, "message") => MessageTyped(v.o.message)

UsageTyped(v) ==
    IsJObj(v) /\ WellTyped(v.o, {}, {"prompt_tokens", "completion_tokens", "total_tokens"}, {}, {})

ChatResponseTyped(o) ==
    /\ WellTyped(o, {"id", "object", "model"}, {"created"}, {"choices"}, {"usage"})
    /\ Has(o, "choices") => \A i \in DOMAIN o.choices.a : ChoiceTyped(o.choices.a[i])
    /\ Has(o, "usage") => UsageTyped(o.usage)

DecodeMessage(o) == [Role |-> StrField(o, "role"), Content |-> StrField(o, "content")]

DecodeChoice(o) ==
    [Index |-> NumField(o, "index"),
     Message |-> IF Has(o, "message") THEN DecodeMessage(o.message.o) ELSE DecodeMessage(<<>>),
     FinishReason |-> StrField(o, "finish_reason")]

\* DecodeUsage with the json tags of the first two counters exchanged
DecodeUsageSwapped(o) ==
    [PromptTokens |-> NumField(o, "completion_tokens"),
     CompletionTokens |-> NumField(o, "prompt_tokens"),
     TotalTokens |-> NumField(o, "total_tokens")]


DecodeUsage(o) ==
    [PromptTokens |-> NumField(o, "prompt_tokens"),
     CompletionTokens |-> NumField(o, "completion_tokens"),
     TotalTokens |-> NumField(o, "total_tokens")]

\* json.Unmarshal(response, &chatResponse)
UnmarshalChatResponse(body) ==
    IF Has(body, "garbage") /\ body.garbage = "" THEN Fail(ErrJSONEnd)
    ELSE IF Has(body, "garbage") THEN Fail(ErrJSONSyntax)
    ELSE IF ~ChatResponseTyped(body.obj) THEN Fail(ErrJSONType)
    ELSE LET o == body.obj IN
         Ok([ID |-> StrField(o, "id"),
             Object |-> StrField(o, "object"),
             Created |-> NumField(o, "created"),
             Model |-> StrField(o, "model"),
             Choices |-> IF Has(o, "choices")
                         THEN [i \in DOMAIN o.choices.a |-> DecodeChoice(o.choices.a[i].o)]
                         ELSE <<>>,
             Usage |-> IF Has(o, "usage") THEN DecodeUsage(o.usage.o) ELSE DecodeUsage(<<>>)])

\* the zero time.Time, and the strings time.Time.UnmarshalJSON accepts
ZeroTime == "0001-01-01T00:00:00Z"
RFC3339Times == {"2023-09-03T17:11:38Z"}

ModelItemTyped(v) == IsJObj(v) /\ WellTyped(v.o, {"id", "object", "owned_by"}, {}, {}, {})

\* time.Time.UnmarshalJSON on the created member of a model
CreatedError(o) ==
    IF ~Has(o, "created") THEN <<>>
    ELSE IF ~IsJStr(o.created) THEN <<ErrTimeNotString>>
    ELSE IF o.created.s \notin RFC3339Times THEN <<NewError("time.ParseError", "parsing time")>>
    ELSE <<>>

DecodeModel(o) ==
    [ID |-> StrField(o, "id"),
     Object |-> StrField(o, "object"),
     Created |-> IF Has(o, "created") THEN o.created.s ELSE ZeroTime,
     OwnedBy |-> StrField(o, "owned_by")]

\* json.Unmarshal(response, &modelsResponse).  The decoder keeps the first
\* type error and goes on, and returns it at the end; the error of an
\* Unmarshaler (time.Time, for created) ends the decoding and is returned
\* whatever type errors came before it
UnmarshalModelsResponse(body) ==
    IF Has(body, "garbage") /\ body.garbage = "" THEN Fail(ErrJSONEnd)
    ELSE IF Has(body, "garbage") THEN Fail(ErrJSONSyntax)
    ELSE LET o == body.obj
             items == IF Has(o, "data") /\ IsJArr(o.data) THEN o.data.a ELSE <<>>
             aborting == { i \in DOMAIN items :
                             IsJObj(items[i]) /\ CreatedError(items[i].o) # <<>> }
             first == CHOOSE i \in aborting : \A j \in aborting : i <= j
         IN
         IF aborting # {} THEN Fail(CreatedError(items[first].o)[1])
         ELSE IF ~WellTyped(o, {"object"}, {}, {"data"}, {}) THEN Fail(ErrJSONType)
         ELSE IF \E i \in DOMAIN items : ~ModelItemTyped(items[i]) THEN Fail(ErrJSONType)
         ELSE Ok([Object |-> StrField(o, "object"),
                  Data |-> [i \in DOMAIN items |-> DecodeModel(items[i].o)]])

\* CreateChatCompletion, lines 101-115: the outbound request
CreateChatCompletionSend(c, request) ==
    doRequestSend(c, "POST", c.baseURL \o ChatCompletionsEndpoint, <<MarshalChatRequest(request)>>)

\* CreateChatCompletion, lines 115-128: the result, given the upstream reply
CreateChatCompletionResult(reply) ==
    LET response == doRequestResult(reply) IN
    IF ~IsOk(response) THEN Fail(Wrap("error en la petición HTTP", response.err[1]))
    ELSE LET parsed == UnmarshalChatResponse(response.val[1]) IN
         IF ~IsOk(parsed) THEN Fail(Wrap("error al parsear respuesta", parsed.err[1]))
         ELSE parsed

\* ListModels, lines 134-139
ListModelsSend(c) == doRequestSend(c, "GET", c.baseURL \o ModelsEndpoint, <<>>)

\* ListModels, lines 139-150
ListModelsResult(reply) ==
    LET response == doRequestResult(reply) IN
    IF ~IsOk(response) THEN Fail(Wrap("error al obtener modelos", response.err[1]))
    ELSE LET parsed == UnmarshalModelsResponse(response.val[1]) IN
         IF ~IsOk(parsed) THEN Fail(Wrap("error al parsear modelos", parsed.err[1]))
         ELSE parsed

\* ------------------------------------------------------------------------
\* infrastructure/http: ChatHandler
\* ------------------------------------------------------------------------

\* a handler's first half: the reply it writes itself, or the service call
\* it makes
Replied(resp) == [resp |-> <<resp>>, call |-> <<>>]
Calls(call) == [resp |-> <<>>, call |-> <<call>>]

\* HandleChat decoding the body before it looks at the method
HandleChatBeginDecodeFirst(r) ==
    LET dec == DecodeChatRequest(r.body) IN
    IF ~IsOk(dec)
    THEN Replied(writeErrorResponse(<<Lit("JSON inválido: ")>> \o dec.err[1].text,
                                    StatusBadRequest))
    ELSE IF r.method # "POST"
    THEN Replied(writeErrorResponse(<<Lit("método no permitido")>>, StatusMethodNotAllowed))
    ELSE LET req == dec.val[1]
             verr == Validate(req)
         IN IF verr # <<>>
            THEN Replied(writeErrorResponse(verr[1].text, StatusBadRequest))
            ELSE Calls([op |-> "SendMessage", message |-> req.Message, model |-> req.Model])

\* HandleChat, lines 50-104
HandleChatBegin(r) ==
    IF r.method # "POST"
    THEN Replied(writeErrorResponse(<<Lit("método no permitido")>>, StatusMethodNotAllowed))
    ELSE LET dec == DecodeChatRequest(r.body) IN
         IF ~IsOk(dec)
         THEN Replied(writeErrorResponse(<<Lit("JSON inválido: ")>> \o dec.err[1].text,
                                         StatusBadRequest))
         ELSE LET req == dec.val[1]
                  verr == Validate(req)
              IN IF verr # <<>>
                 THEN Replied(writeErrorResponse(verr[1].text, StatusBadRequest))
                 ELSE Calls([op |-> "SendMessage", message |-> req.Message, model |-> req.Model])

\* HandleChat replying with the service's error text
HandleChatEndLeaky(res) ==
    IF ~IsOk(res)
    THEN writeErrorResponse(res.err[1].text, StatusInternalServerError)
    ELSE LET response == res.val[1] IN
         writeJSONResponse(
             NewChatResponse(GetResponseContent(response),
                             response.Model,
                             [prompt_tokens |-> response.Usage.PromptTokens,
                              completion_tokens |-> response.Usage.CompletionTokens,
                              total_tokens |-> response.Usage.TotalTokens]),
             StatusOK)

\* HandleChat replying with the name of the default model
HandleChatEndDefaultModel(res) ==
    IF ~IsOk(res)
    THEN writeErrorResponse(<<Lit("error al procesar el mensaje")>>, StatusInternalServerError)
    ELSE LET response == res.val[1] IN
         writeJSONResponse(
             NewChatResponse(GetResponseContent(response),
                             "llama-3.3-70b-versatile",
                             [prompt_tokens |-> response.Usage.PromptTokens,
                              completion_tokens |-> response.Usage.CompletionTokens,
                              total_tokens |-> response.Usage.TotalTokens]),
             StatusOK)


\* HandleChat, lines 104-131, given what SendMessage returned
HandleChatEnd(res) ==
    IF ~IsOk(res)
    THEN writeErrorResponse(<<Lit("error al procesar el mensaje")>>, StatusInternalServerError)
    ELSE LET response == res.val[1] IN
         writeJSONResponse(
             NewChatResponse(GetResponseContent(response),
                             response.Model,
                             [prompt_tokens |-> response.Usage.PromptTokens,
                              completion_tokens |-> response.Usage.CompletionTokens,
                              total_tokens |-> response.Usage.TotalTokens]),
             StatusOK)

\* HandleGetModels, lines 136-156
HandleGetModelsBegin(r) ==
    IF r.method # "GET"
    THEN Replied(writeErrorResponse(<<Lit("método no permitido")>>, StatusMethodNotAllowed))
    ELSE Calls([op |-> "GetAvailableModels"])

\* HandleGetModels listing the models last to first
HandleGetModelsEndReversed(res) ==
    IF ~IsOk(res)
    THEN writeErrorResponse(<<Lit("error al obtener modelos")>>, StatusInternalServerError)
    ELSE LET data == res.val[1].Data IN
         writeJSONResponse(
             NewModelsResponse([i \in DOMAIN data |->
                 [id |-> data[Len(data) + 1 - i].ID, name |-> data[Len(data) + 1 - i].ID,
                  owned_by |-> data[Len(data) + 1 - i].OwnedBy]]),
             StatusOK)

\* HandleGetModels, lines 156-183, given what GetAvailableModels returned
HandleGetModelsEnd(res) ==
    IF ~IsOk(res)
    THEN writeErrorResponse(<<Lit("error al obtener modelos")>>, StatusInternalServerError)
    ELSE LET data == res.val[1].Data IN
         writeJSONResponse(
             NewModelsResponse([i \in DOMAIN data |->
                 [id |-> data[i].ID, name |-> data[i].ID, owned_by |-> data[i].OwnedBy]]),
             StatusOK)

\* HandleHealth asking the service for the models before it answers
HandleHealthProbing(now) == Calls([op |-> "GetAvailableModels"])

\* HandleHealth; now is time.Now().Unix()
HandleHealth(now) ==
    Replied(writeJSONResponse(NewHealthResponse("healthy", "groq-api", now), StatusOK))

\* handleRoot: the JSON document it writes, with Content-Type
\* application/json
handleRoot ==
    Replied([status |-> StatusOK,
             body |-> [name |-> "Groq Hexagonal API",
                       version |-> "1.0.0",
                       description |-> "API REST para interactuar con Groq usando Arquitectura Hexagonal",
                       endpoints |-> [chat |-> "POST /api/v1/chat",
                                      models |-> "GET /api/v1/models",
                                      health |-> "GET /health"],
                       documentation |-> "https://github.com/tu-usuario/groq-hexagonal-api"]])

\* ------------------------------------------------------------------------
\* infrastructure/http: SetupRouter
\* ------------------------------------------------------------------------

\* the routes with the chat and models handlers also registered on the
\* root router
RoutesWithAliases ==
    { [path |-> "/api/v1/chat", method |-> "POST", handler |-> "HandleChat"],
      [path |-> "/chat", method |-> "POST", handler |-> "HandleChat"],
      [path |-> "/api/v1/models", method |-> "GET", handler |-> "HandleGetModels"],
      [path |-> "/models", method |-> "GET", handler |-> "HandleGetModels"],
      [path |-> "/health", method |-> "GET", handler |-> "HandleHealth"],
      [path |-> "/", method |-> "GET", handler |-> "handleRoot"] }

\* the routes SetupRouter registers
Routes ==
    { [path |-> "/api/v1/chat", method |-> "POST", handler |-> "HandleChat"],
      [path |-> "/api/v1/models", method |-> "GET", handler |-> "HandleGetModels"],
      [path |-> "/health", method |-> "GET", handler |-> "HandleHealth"],
      [path |-> "/", method |-> "GET", handler |-> "handleRoot"] }

\* the router's match when the routes are not restricted to their method
RouteAnyMethod(method, path) ==
    IF \E rt \in Routes : rt.path = path
    THEN (CHOOSE rt \in Routes : rt.path = path).handler
    ELSE "notFound"

\* the router's match: a handler, or the router's own 405 (path registered,
\* method not) or 404 (path not registered)
Route(method, path) ==
    IF \E rt \in Routes : rt.path = path /\ rt.method = method
    THEN (CHOOSE rt \in Routes : rt.path = path /\ rt.method = method).handler
    ELSE IF \E rt \in Routes : rt.path = path THEN "methodNotAllowed"
    ELSE "notFound"

\* the value of header name of request r, "" when r does not carry it
\* (r.Header.Get)
RequestHeader(r, name) ==
    IF Has(r, "header") /\ name \in DOMAIN r.header THEN r.header[name] ELSE ""

\* the CORS handler's test of a preflight request: the method is OPTIONS
\* and the request names the method of the request it announces
IsPreflight(r) ==
    r.method = "OPTIONS" /\ RequestHeader(r, "Access-Control-Request-Method") # ""

\* the handler SetupRouter returns, corsHandler.Handler(router): the CORS
\* handler answers a preflight request itself, whatever its path, and the
\* router and its middlewares do not see it (OptionsPassthrough is not
\* set); every other request goes on to the router
corsHandler(r) == IF IsPreflight(r) THEN "preflight" ELSE Route(r.method, r.path)

\* what recoveryMiddleware writes when it recovers a panic
PanicResponse ==
    [status |-> StatusInternalServerError,
     body |-> [success |-> FALSE, error |-> <<Lit("internal server error")>>]]

\* recoveryMiddleware without the deferred recover: the panic leaves the
\* handler chain and nothing is written
recoveryMiddlewareAbsent(panicked, resp) == IF panicked THEN <<>> ELSE resp

\* recoveryMiddleware around the rest of the chain: resp is what the chain
\* wrote, panicked tells that it panicked before it wrote
recoveryMiddleware(panicked, resp) == IF panicked THEN <<PanicResponse>> ELSE resp

\* the reply of the chain that serves request r: the router's chain has the
\* recovery middleware, a handler method invoked directly has not, and
\* neither has the CORS handler when it answers a preflight request
Chain(r, panicked, resp) ==
    IF r.via = "router" /\ ~IsPreflight(r) THEN recoveryMiddleware(panicked, resp)
    ELSE IF panicked THEN <<>> ELSE resp

\* the point of its handling at which a request meets a runtime fault:
\* "service" when the service call panics before any outbound call,
\* "reply" when the panic is raised after the outbound call has returned
FaultAt(r) == IF "fault" \in DOMAIN r THEN r.fault ELSE "none"

\* the handler h applied to request r
Dispatch(h, r, now) ==
    CASE h = "HandleChat" -> HandleChatBegin(r)
      [] h = "HandleGetModels" -> HandleGetModelsBegin(r)
      [] h = "HandleHealth" -> HandleHealth(now)
      [] h = "handleRoot" -> handleRoot
      [] h = "methodNotAllowed" -> Replied([status |-> StatusMethodNotAllowed, body |-> [raw |-> ""]])
      [] h = "notFound" -> Replied([status |-> StatusNotFound, body |-> [raw |-> "404 page not found\n"]])
      [] h = "preflight" -> Replied([status |-> StatusNoContent, body |-> [raw |-> ""]])

\* what answers a request: through the handler SetupRouter returns, the
\* CORS handler or what the router matches, or a handler method invoked
\* directly
Target(r) == IF r.via = "router" THEN corsHandler(r) ELSE r.handler

\* ------------------------------------------------------------------------
\* Inputs: client requests and upstream replies
\* ------------------------------------------------------------------------

ConfigDefaultModel == "llama-3.3-70b-versatile"
ConfigBaseURL == "https://api.groq.com/openai/v1"

\* HTTP_TIMEOUT's default and the server's ReadTimeout and WriteTimeout, in
\* seconds
ConfigHTTPTimeout == 30
ServerReadTimeout == 15
ServerWriteTimeout == 15
ConfigPort == "8080"

\* ------------------------------------------------------------------------
\* config: Load and Validate; cmd/api: the constructors main calls
\* ------------------------------------------------------------------------
\* An environment gives each variable <<>> (not set) or <<v>>.  The value
\* of HTTP_TIMEOUT is a sequence of characters, the other values are
\* strings.  A duration is a number of seconds.

EnvKeys == {"PORT", "GROQ_API_KEY", "GROQ_BASE_URL", "DEFAULT_MODEL", "HTTP_TIMEOUT"}

\* godotenv.Load: a variable of the .env file is set unless the process
\* environment already has it, with any value
DotenvLoad(env, file) == [k \in EnvKeys |-> IF env[k] # <<>> THEN env[k] ELSE file[k]]

\* os.Getenv: "" when the variable is not set
Getenv(env, key, empty) == IF env[key] = <<>> THEN empty ELSE env[key][1]

\* getEnv built on os.LookupEnv: a variable set to "" keeps that value
getEnvLookup(env, key, defaultValue) ==
    IF env[key] # <<>> THEN env[key][1] ELSE defaultValue

\* getEnv, lines 140-146
getEnv(env, key, defaultValue) ==
    IF Getenv(env, key, "") # "" THEN Getenv(env, key, "") ELSE defaultValue

DigitValue ==
    [c \in {"0", "1", "2", "3", "4", "5", "6", "7", "8", "9"} |->
        CASE c = "0" -> 0 [] c = "1" -> 1 [] c = "2" -> 2 [] c = "3" -> 3 [] c = "4" -> 4
          [] c = "5" -> 5 [] c = "6" -> 6 [] c = "7" -> 7 [] c = "8" -> 8 [] c = "9" -> 9]

RECURSIVE DecimalValue(_)
DecimalValue(cs) ==
    IF cs = <<>> THEN 0
    ELSE 10 * DecimalValue(SubSeq(cs, 1, Len(cs) - 1)) + DigitValue[cs[Len(cs)]]

\* strconv.Atoi: an optional sign and at least one digit, nothing else
Atoi(cs) ==
    LET signed == cs # <<>> /\ cs[1] \in {"+", "-"}
        digits == IF signed THEN Tail(cs) ELSE cs
    IN IF digits = <<>> \/ \E i \in DOMAIN digits : digits[i] \notin DOMAIN DigitValue
       THEN Fail(NewError("strconv.ErrSyntax", "invalid syntax"))
       ELSE Ok(IF signed /\ cs[1] = "-" THEN 0 - DecimalValue(digits) ELSE DecimalValue(digits))

getEnvAsDuration(env, key, defaultValue) ==
    LET valueStr == Getenv(env, key, <<>>) IN
    IF valueStr = <<>> THEN defaultValue
    ELSE IF ~IsOk(Atoi(valueStr)) THEN defaultValue
    ELSE Atoi(valueStr).val[1]

\* Config.Validate accepting a configuration without API key
ConfigValidateKeyOptional(c) ==
    IF c.GroqBaseURL = "" THEN <<NewError("config.baseURL", "GROQ_BASE_URL es requerido")>>
    ELSE IF c.Port = "" THEN <<NewError("config.port", "PORT es requerido")>>
    ELSE IF c.HTTPTimeout <= 0
    THEN <<NewError("config.timeout", "HTTP_TIMEOUT debe ser mayor a 0")>>
    ELSE <<>>

\* Config.Validate
ConfigValidate(c) ==
    IF c.GroqAPIKey = "" THEN <<NewError("config.apiKey", "GROQ_API_KEY es requerido")>>
    ELSE IF c.GroqBaseURL = "" THEN <<NewError("config.baseURL", "GROQ_BASE_URL es requerido")>>
    ELSE IF c.Port = "" THEN <<NewError("config.port", "PORT es requerido")>>
    ELSE IF c.HTTPTimeout <= 0
    THEN <<NewError("config.timeout", "HTTP_TIMEOUT debe ser mayor a 0")>>
    ELSE <<>>

\* config.Load, given the process environment and the .env file
Load(env, file) ==
    LET e == DotenvLoad(env, file)
        config == [Port |-> getEnv(e, "PORT", ConfigPort),
                   GroqAPIKey |-> getEnv(e, "GROQ_API_KEY", ""),
                   GroqBaseURL |-> getEnv(e, "GROQ_BASE_URL", ConfigBaseURL),
                   DefaultModel |-> getEnv(e, "DEFAULT_MODEL", ConfigDefaultModel),
                   HTTPTimeout |-> getEnvAsDuration(e, "HTTP_TIMEOUT", ConfigHTTPTimeout)]
    IN IF ConfigValidate(config) # <<>> THEN Fail(ConfigValidate(config)[1]) ELSE Ok(config)

GetServerAddress(c) == ":" \o c.Port

\* NewGroqClient: the client, or the panic of an empty argument
NewGroqClient(apiKey, baseURL, timeout) ==
    IF apiKey = "" THEN [panic |-> "apiKey no puede estar vacía"]
    ELSE IF baseURL = "" THEN [panic |-> "baseURL no puede estar vacía"]
    ELSE [baseURL |-> baseURL, apiKey |-> apiKey, timeout |-> timeout]

Garbage == [garbage |-> "<html>"]
NoBody == [garbage |-> ""]
Msg(m) == [message |-> JStr(m)]
HiBody == [obj |-> Msg("hi")]

\* bodies a client posts to the chat endpoint
ClientBodies ==
    { Garbage, NoBody, HiBody,
      [obj |-> <<>>],
      [obj |-> Msg("")],
      [obj |-> Msg(" ")],
      [obj |-> [message |-> JNum(5)]],
      [obj |-> Msg("hi") @@ [model |-> JStr("mixtral-8x7b")]],
      [obj |-> Msg("hi") @@ [model |-> JStr("")]],
      [obj |-> Msg("") @@ [temperature |-> JNum(3)]],
      [obj |-> Msg("hi") @@ [temperature |-> JNum(3), max_tokens |-> JNum(-1)]] }
    \cup { [obj |-> Msg("hi") @@ [temperature |-> JNum(t)]] : t \in {-1, 0, 1, 2, 3} }
    \cup { [obj |-> Msg("hi") @@ [max_tokens |-> JNum(n)]] : n \in {-1, 0, 5} }

Req(via, handler, method, path, body) ==
    [via |-> via, handler |-> handler, method |-> method, path |-> path, body |-> body]

\* the headers of the preflight request a browser sends before a
\* cross-origin request with the given method and a JSON body or none
PreflightHeader(origin, method) ==
    [name \in {"Origin", "Access-Control-Request-Method", "Access-Control-Request-Headers"} |->
        CASE name = "Origin" -> origin
          [] name = "Access-Control-Request-Method" -> method
          [] name = "Access-Control-Request-Headers" ->
                 IF method = "POST" THEN "content-type" ELSE ""]

\* the origin of the page of the UI
UIOrigin == "http://localhost:3000"

\* requests with method OPTIONS: the preflight request of the UI before its
\* chat call, one before a call of the models, one on an unversioned path,
\* one of a client that names no origin, and requests that carry no
\* Access-Control-Request-Method header
OptionsInputs ==
    { Req("router", "", "OPTIONS", "/api/v1/chat", NoBody)
          @@ [header |-> PreflightHeader(UIOrigin, "POST")],
      Req("router", "", "OPTIONS", "/api/v1/models", NoBody)
          @@ [header |-> PreflightHeader("", "GET")],
      Req("router", "", "OPTIONS", "/chat", NoBody)
          @@ [header |-> PreflightHeader(UIOrigin, "POST")],
      Req("router", "", "OPTIONS", "/api/v1/chat", NoBody)
          @@ [header |-> [name \in {"Origin"} |-> UIOrigin]],
      Req("router", "", "OPTIONS", "/chat", NoBody) }

\* requests received by the handler SetupRouter returns
RouterInputs ==
    OptionsInputs \cup
    { Req("router", "", "POST", "/api/v1/chat", b) : b \in ClientBodies }
    \cup { Req("router", "", m, "/api/v1/chat", HiBody) : m \in {"GET", "PUT"} }
    \cup { Req("router", "", m, "/api/v1/models", NoBody) : m \in {"GET", "POST"} }
    \cup { Req("router", "", m, "/health", NoBody) : m \in {"GET", "POST"} }
    \cup { Req("router", "", "GET", "/", NoBody) }
    \cup { Req("router", "", "POST", "/chat", HiBody),
           Req("router", "", "GET", "/chat", NoBody),
           Req("router", "", "GET", "/models", NoBody) }

\* handler methods invoked directly, without the router
HandlerInputs ==
    { Req("handler", "HandleChat", "GET", "/api/v1/chat", HiBody),
      Req("handler", "HandleChat", "POST", "/api/v1/chat", HiBody),
      Req("handler", "HandleChat", "GET", "/api/v1/chat", Garbage),
      Req("handler", "HandleChat", "POST", "/api/v1/chat", [obj |-> Msg("")]),
      Req("handler", "HandleGetModels", "POST", "/api/v1/models", NoBody),
      Req("handler", "HandleGetModels", "GET", "/api/v1/models", NoBody) }

Inputs == RouterInputs \cup HandlerInputs

\* values of time.Now().Unix()
Clock == {1700000000, 1700000001}

UpChoice(i, content) ==
    JObj([index |-> JNum(i),
          message |-> JObj([role |-> JStr("assistant"), content |-> JStr(content)]),
          finish_reason |-> JStr("stop")])

UpUsage(p, c, t) ==
    JObj([prompt_tokens |-> JNum(p), completion_tokens |-> JNum(c), total_tokens |-> JNum(t)])

UpChat(model, choices, usage) ==
    [obj |-> [id |-> JStr("chatcmpl-1"), object |-> JStr("chat.completion"),
              created |-> JNum(1700000000), model |-> JStr(model),
              choices |-> JArr(choices), usage |-> usage]]

OneChoice == UpChat(ConfigDefaultModel, <<UpChoice(0, "hello")>>, UpUsage(5, 3, 8))
TwoChoices == UpChat("mixtral-8x7b", <<UpChoice(0, "first"), UpChoice(1, "second")>>, UpUsage(1, 2, 3))
OtherModel == UpChat("llama-3.1-8b-instant", <<UpChoice(0, "hello")>>, UpUsage(7, 0, 7))
ZeroChoices == UpChat(ConfigDefaultModel, <<>>, UpUsage(4, 0, 4))
ErrorBody == [obj |-> [error |-> JObj([message |-> JStr("rate limit reached")])]]
MistypedBody == [obj |-> [model |-> JStr(ConfigDefaultModel), choices |-> JStr("none")]]

\* a reply whose only choice has a message with the members role, beside
\* its content
RoleBody(role) ==
    UpChat(ConfigDefaultModel,
           <<JObj([index |-> JNum(0),
                   message |-> JObj(role @@ [content |-> JStr("done")]),
                   finish_reason |-> JStr("stop")])>>,
           UpUsage(2, 1, 3))
ToolRole == RoleBody([role |-> JStr("tool")])
NoRole == RoleBody(<<>>)

UpModel(id, owner, created) ==
    JObj([id |-> JStr(id), object |-> JStr("model"), owned_by |-> JStr(owner)] @@ created)

ModelsBody ==
    [obj |-> [object |-> JStr("list"),
              data |-> JArr(<<UpModel("llama-3.3-70b-versatile", "Meta", <<>>),
                              UpModel("mixtral-8x7b", "Mistral AI",
                                      [created |-> JStr("2023-09-03T17:11:38Z")])>>)]]
ModelsBodyUnixCreated ==
    [obj |-> [object |-> JStr("list"),
              data |-> JArr(<<UpModel("llama-3.3-70b-versatile", "Meta",
                                      [created |-> JNum(1693721698)])>>)]]

\* a list whose first model has a number for id and whose second model has
\* a number for created
ModelsBodyMistyped ==
    [obj |-> [object |-> JStr("list"),
              data |-> JArr(<<JObj([id |-> JNum(7), object |-> JStr("model"),
                                    owned_by |-> JStr("Meta")]),
                              UpModel("mixtral-8x7b", "Mistral AI",
                                      [created |-> JNum(1693721698)])>>)]]

HTTPReply(status, body) == [status |-> status, body |-> body, readerr |-> <<>>]

\* outcomes of httpClient.Do that are common to both upstream endpoints
FailedReplies ==
    { [neterr |-> ErrDeadline], [neterr |-> ErrConnRefused],
      [status |-> 200, body |-> NoBody, readerr |-> <<ErrBodyRead>>],
      HTTPReply(429, ErrorBody), HTTPReply(500, Garbage), HTTPReply(200, Garbage) }

\* outcomes of httpClient.Do for POST /chat/completions
ChatReplies ==
    FailedReplies
    \cup { HTTPReply(200, b) : b \in {OneChoice, TwoChoices, OtherModel, ZeroChoices,
                                      ErrorBody, MistypedBody, ToolRole, NoRole} }
    \cup { HTTPReply(299, TwoChoices), HTTPReply(300, OneChoice), HTTPReply(500, OneChoice) }

\* outcomes of httpClient.Do for GET /models
ModelsReplies ==
    FailedReplies
    \cup { HTTPReply(200, ModelsBody), HTTPReply(200, ModelsBodyUnixCreated),
           HTTPReply(200, ModelsBodyMistyped), HTTPReply(200, ErrorBody),
           HTTPReply(404, ModelsBody) }

\* ------------------------------------------------------------------------
\* groq-frontend: the App component (App.jsx)
\* ------------------------------------------------------------------------

\* The text of the input field is a sequence of characters; ids and
\* timestamps of the messages are left out.

API_BASE_URL == "http://localhost:8080"
AVAILABLE_MODELS == <<"llama-3.3-70b-versatile", "llama-3.1-8b-instant", "mixtral-8x7b-32768">>

\* the JavaScript engines taken here, of the browser the page runs in
Engines == {"V8", "SpiderMonkey"}

\* the state after the first render: the useState values, the fetches that
\* have not settled yet, the statuses of the responses whose body
\* response.json() is waiting for, the number of fetches issued so far and
\* the engine that runs the page
NewApp ==
    [messages |-> <<>>, inputMessage |-> <<>>, selectedModel |-> AVAILABLE_MODELS[1],
     isLoading |-> FALSE, error |-> <<>>, calls |-> <<>>, reading |-> <<>>, posts |-> 0,
     engine |-> "V8"]

\* the characters String.prototype.trim strips: WhiteSpace and
\* LineTerminator of ECMAScript.  A text is a sequence of pieces; a piece is
\* a run of characters that trim does not strip, or one character that it
\* strips, written by its code point when a string here cannot hold it.
WhiteSpace ==
    {" ", "\n", "\t", "\r", "\f", "U+000B", "U+00A0", "U+1680", "U+2000", "U+2001",
     "U+2002", "U+2003", "U+2004", "U+2005", "U+2006", "U+2007", "U+2008", "U+2009",
     "U+200A", "U+2028", "U+2029", "U+202F", "U+205F", "U+3000", "U+FEFF"}
RECURSIVE TrimStart(_)
TrimStart(s) == IF s # <<>> /\ Head(s) \in WhiteSpace THEN TrimStart(Tail(s)) ELSE s
RECURSIVE TrimEnd(_)
TrimEnd(s) ==
    IF s # <<>> /\ s[Len(s)] \in WhiteSpace THEN TrimEnd(SubSeq(s, 1, Len(s) - 1)) ELSE s
Trim(s) == TrimEnd(TrimStart(s))

\* sendMessageToAPI, lines 130-140: the fetch it issues
sendMessageToAPISend(message, model) ==
    [method |-> "POST", url |-> API_BASE_URL \o "/api/v1/chat",
     header |-> [ContentType |-> ContentTypeJSON],
     body |-> [message |-> message, model |-> model]]

\* response.ok
ResponseOk(response) == response.status >= 200 /\ response.status <= 299

\* the message of the SyntaxError the JSON parser of engine throws for a
\* text that is not JSON: the empty text, a text whose first character
\* begins no value, and the text of the router's 404, which is a number
\* followed by something else (V8 as of Node 20)
JSONSyntaxError(engine, text) ==
    CASE engine = "V8" /\ text = "" -> "Unexpected end of JSON input"
      [] engine = "V8" /\ text = "<html>" ->
             "Unexpected token '<', \"<html>\" is not valid JSON"
      [] engine = "V8" /\ text = "404 page not found\n" ->
             "Unexpected non-whitespace character after JSON at position 4"
      [] engine = "SpiderMonkey" /\ text = "" ->
             "JSON.parse: unexpected end of data at line 1 column 1 of the JSON data"
      [] engine = "SpiderMonkey" /\ text = "<html>" ->
             "JSON.parse: unexpected character at line 1 column 1 of the JSON data"
      [] engine = "SpiderMonkey" /\ text = "404 page not found\n" ->
             "JSON.parse: unexpected non-whitespace character after JSON data at line 1 column 5 of the JSON data"

\* response.json() on engine: the parsed body, the SyntaxError it throws,
\* or the TypeError of a body that did not arrive
ResponseJSON(engine, response) ==
    IF Has(response.body, "aborted") THEN Fail(<<Lit(response.body.aborted)>>)
    ELSE IF Has(response.body, "raw")
    THEN Fail(<<Lit(JSONSyntaxError(engine, response.body.raw))>>)
    ELSE Ok(response.body)

\* sendMessageToAPI, lines 142-152, when the fetch has settled with outcome
\* o (a response, or the rejection of the promise) on engine: the parsed
\* body, or the message of the Error thrown
sendMessageToAPIResult(engine, o) ==
    IF Has(o, "rejected") THEN Fail(<<Lit(o.rejected)>>)
    ELSE LET data == ResponseJSON(engine, o) IN
         IF ~IsOk(data) THEN data
         ELSE IF ~ResponseOk(o)
         THEN Fail(IF Has(data.val[1], "error") /\ data.val[1].error # <<>>
                   THEN data.val[1].error
                   ELSE <<Lit("Error al comunicarse con la API")>>)
         ELSE data

\* a member of a parsed body, undefined when absent
Member(o, f) == IF Has(o, f) THEN <<o[f]>> ELSE <<>>

\* handleSubmit sending whatever the input holds
handleSubmitUnchecked(u) ==
    [u EXCEPT !.error = <<>>,
              !.messages = Append(@, [role |-> "user", content |-> u.inputMessage]),
              !.inputMessage = <<>>,
              !.isLoading = TRUE,
              !.calls = Append(@, sendMessageToAPISend(u.inputMessage, u.selectedModel)),
              !.posts = @ + 1]

\* handleSubmit, lines 158-186, up to the await
handleSubmit(u) ==
    IF Trim(u.inputMessage) = <<>> THEN u
    ELSE [u EXCEPT !.error = <<>>,
                   !.messages = Append(@, [role |-> "user", content |-> u.inputMessage]),
                   !.inputMessage = <<>>,
                   !.isLoading = TRUE,
                   !.calls = Append(@, sendMessageToAPISend(u.inputMessage, u.selectedModel)),
                   !.posts = @ + 1]

\* the call of sendMessageToAPI that ends with outcome o leaves its wait:
\* in fetch when the promise was rejected, else in response.json()
Settled(u, o) ==
    IF Has(o, "rejected") THEN [u EXCEPT !.calls = Tail(@)]
    ELSE [u EXCEPT !.reading = Tail(@)]

\* sendMessageToAPI, lines 133-151: fetch has resolved with a response of
\* this status; response.ok is looked at and response.json() awaited
sendMessageToAPIResponse(u, status) ==
    [u EXCEPT !.calls = Tail(@), !.reading = Append(@, status)]

\* handleSubmit showing a failure in the banner only
handleSubmitEndQuiet(u, o) ==
    LET r == sendMessageToAPIResult(u.engine, o) IN
    [Settled(u, o) EXCEPT
              !.messages = IF IsOk(r)
                           THEN Append(@, [role |-> "assistant",
                                           content |-> Member(r.val[1], "message"),
                                           model |-> Member(r.val[1], "model"),
                                           usage |-> Member(r.val[1], "usage")])
                           ELSE @,
              !.error = IF IsOk(r) THEN @ ELSE <<r.err[1]>>,
              !.isLoading = FALSE]

\* handleSubmit, lines 186-229, from the await on, sendMessageToAPI having
\* ended with outcome o: the rejection of fetch, or the response and what
\* response.json() made of its body
handleSubmitEnd(u, o) ==
    LET r == sendMessageToAPIResult(u.engine, o)
        \* the cross mark before "Error: " is written by its code point
        assistantMessage == [role |-> "assistant",
                             content |-> Member(r.val[1], "message"),
                             model |-> Member(r.val[1], "model"),
                             usage |-> Member(r.val[1], "usage")]
        errorMessage == [role |-> "assistant",
                         content |-> <<Lit("U+274C"), Lit(" Error: ")>> \o r.err[1],
                         isError |-> TRUE]
    IN [Settled(u, o) EXCEPT
                 !.messages = Append(@, IF IsOk(r) THEN assistantMessage ELSE errorMessage),
                 !.error = IF IsOk(r) THEN @ ELSE <<r.err[1]>>,
                 !.isLoading = FALSE]

handleInputChange(u, value) == [u EXCEPT !.inputMessage = value]

handleSuggestion(u, text) == [u EXCEPT !.inputMessage = text]

\* handleClearChat, given the answer to window.confirm
handleClearChat(u, confirmed) ==
    IF confirmed THEN [u EXCEPT !.messages = <<>>, !.error = <<>>] ELSE u


\* ------------------------------------------------------------------------
\* State machine of the assembled server (cmd/api/main.go)
\* ------------------------------------------------------------------------

\* a goroutine blocked on the network: the request it serves, the handler
\* that serves it, the service call the handler made, the ChatRequest given
\* to the repository (none for ListModels), the outbound HTTP request and
\* the number of service, repository and outbound calls it has made.  phase
\* tells where it is blocked: "decode" in Decode of the request's body
\* (HandleChat, line 77), "do" in httpClient.Do (doRequest, line 210) and
\* "read" in io.ReadAll of the response's body (line 225), Do having
\* returned a response (doRequest looks at the status of the response at
\* line 235, when the body has been read: the status is part of what
\* ReadAll's return brings); waited is the time in seconds the goroutine is
\* known to have been in its wait: in Decode counted from the moment the
\* server began to read the request, since the read deadline of the
\* connection counts from there, in the outbound call (Do and ReadAll) from
\* its start; age is the time in seconds since the server read the header
\* of the request, which is when it set the write deadline of the connection
Pending(in, target, call, greq, out, n) ==
    [in |-> in, target |-> target, call |-> call, greq |-> greq, out |-> out, n |-> n,
     waited |-> 0, age |-> 0, phase |-> "do"]

\* a completed exchange; reply, gwRes, svcRes and resp are <<>> when the
\* exchange did not get that far
Exchange(in, target, call, greq, out, reply, gwRes, svcRes, resp, n) ==
    [in |-> in, target |-> target, call |-> call, greq |-> greq, out |-> out,
     reply |-> reply, gwRes |-> gwRes, svcRes |-> svcRes, resp |-> resp, n |-> n]

Count(svc, gw, up) == [svc |-> svc, gw |-> gw, up |-> up]

\* no variable set
Unset == [k \in EnvKeys |-> <<>>]

\* the http.Server main builds
NewServer(cfg) ==
    [Addr |-> GetServerAddress(cfg), ReadTimeout |-> ServerReadTimeout,
     WriteTimeout |-> ServerWriteTimeout]

\* the process at the start of main, with its environment and .env file
Started(env, file) ==
    [pc |-> "start", panics |-> 0, env |-> env, file |-> file, cfg |-> <<>>, server |-> <<>>]

\* the process while the server accepts requests, started with only
\* GROQ_API_KEY set
Serving ==
    LET env == [Unset EXCEPT !["GROQ_API_KEY"] = <<"gsk_test">>]
        cfg == Load(env, Unset).val[1]
    IN [Started(env, Unset) EXCEPT !.pc = "serving", !.cfg = <<cfg>>, !.server = <<NewServer(cfg)>>]

\* main: NewGroqClient(cfg...), NewChatService(groqClient, cfg.DefaultModel)
Init ==
    /\ defaultModel = ConfigDefaultModel
    /\ client = [baseURL |-> ConfigBaseURL, apiKey |-> "gsk_test", timeout |-> ConfigHTTPTimeout]
    /\ inflight = EmptyBag
    /\ last = <<>>
    /\ svcCalls = 0
    /\ gwCalls = 0
    /\ upCalls = 0
    /\ main = Serving
    /\ ui = NewApp

\* the body of a request of which the server has read the header only
Unread == [unread |-> TRUE]
Header(in) == [in EXCEPT !.body = Unread]

\* HandleChat, lines 50-77: the handler to which the request went has
\* passed the check of the method and reads the body
AwaitsBody(in) == Target(in) = "HandleChat" /\ in.method = "POST"

\* the requests of a set as the server has them when it calls the handler:
\* without the body when the handler is going to read it
Arrivals(inputs) == { IF AwaitsBody(in) THEN Header(in) ELSE in : in \in inputs }

\* the time in seconds the header of request r took to arrive, from the
\* moment the server began to read the request
HeaderGap(r) == IF "gap" \in DOMAIN r THEN r.gap ELSE 0

\* the goroutine of HandleChat blocked in Decode; since is the time for
\* which the server has been reading the request (the read deadline of the
\* connection counts from there)
Reading(in, since) ==
    [Pending(Header(in), Target(in), <<>>, <<>>, <<>>, Count(0, 0, 0))
        EXCEPT !.phase = "decode", !.waited = since]

\* the age of the request of the goroutine that goes on: was holds the
\* goroutine that was blocked, and nothing when the header has just been read
AgeOf(was) == IF was = EmptyBag THEN 0 ELSE (CHOOSE p \in BagToSet(was) : TRUE).age

\* the server reads requests: it is listening, or Shutdown has left open a
\* connection that was accepted before the signal and has sent nothing yet
Accepting(m) == m.pc = "serving" \/ (m.pc = "stopping" /\ m.fresh # <<>>)

\* the connections on which a request can arrive: while the server listens
\* any connection (0), after the signal only those that were accepted
\* before it and have sent nothing yet, by their index in fresh
Conns(m) == IF m.pc = "stopping" THEN DOMAIN m.fresh ELSE {0}

\* the time for which the server has been reading request in when its
\* header arrives on connection c: net/http starts to read the first
\* request of a connection when it has accepted the connection
Began(in, m, c) == IF c = 0 THEN HeaderGap(in) ELSE m.fresh[c]

\* the connections of the given ages without the c-th
Without(ages, c) == SubSeq(ages, 1, c - 1) \o SubSeq(ages, c + 1, Len(ages))

\* the process after a request has arrived on connection c; late counts the
\* requests that arrived after the signal and lateAt is the time since the
\* signal at which the last of them arrived
Arrived(m, c) ==
    IF c = 0 THEN m
    ELSE [m EXCEPT !.fresh = Without(@, c),
                   !.late = @ + 1, !.lateAt = m.elapsed]

\* the handler chain runs for request in, whose body it has when it reads
\* one, until it has written its reply or blocks in the outbound call; was
\* is the goroutine blocked in Decode until now (none when the handler does
\* not read the body) and m the process
Proceed(in, now, was, m) ==
    LET target == Target(in)
        h == Dispatch(target, in, now)
        called == h.call # <<>>
        panics == called /\ FaultAt(in) = "service"
        chat == called /\ h.call[1].op = "SendMessage"
        s == IF chat /\ ~panics
             THEN SendMessageRequest(defaultModel, h.call[1].message, h.call[1].model)
             ELSE [err |-> <<>>, request |-> <<>>]
        reachesRepo == called /\ ~panics /\ s.err = <<>>
        out == IF ~reachesRepo THEN <<>>
               ELSE IF chat THEN <<CreateChatCompletionSend(client, s.request[1])>>
               ELSE <<ListModelsSend(client)>>
    IN
    /\ svcCalls' = svcCalls + (IF called THEN 1 ELSE 0)
    /\ gwCalls' = gwCalls + (IF reachesRepo THEN 1 ELSE 0)
    /\ upCalls' = upCalls + Len(out)
    /\ main' = [m EXCEPT !.panics = @ + (IF panics THEN 1 ELSE 0)]
    /\ LET n == Count(svcCalls' - svcCalls, gwCalls' - gwCalls, upCalls' - upCalls) IN
       IF reachesRepo
       THEN \* blocked in httpClient.Do
            /\ inflight' = (inflight (-) was)
                               (+) SetToBag({[Pending(in, target, h.call, s.request, out, n)
                                                 EXCEPT !.age = AgeOf(was)]})
            /\ UNCHANGED last
       ELSE IF panics
       THEN \* the service call panicked
            /\ last' = <<Exchange(in, target, h.call, <<>>, <<>>, <<>>, <<>>, <<>>,
                                  Chain(in, TRUE, <<>>), n) @@ [age |-> AgeOf(was)]>>
            /\ inflight' = inflight (-) was
       ELSE IF called
       THEN \* SendMessage returned before calling the repository
            /\ last' = <<Exchange(in, target, h.call, <<>>, <<>>, <<>>, <<>>,
                                  <<Fail(s.err[1])>>,
                                  Chain(in, FALSE, <<HandleChatEnd(Fail(s.err[1]))>>), n)
                           @@ [age |-> AgeOf(was)]>>
            /\ inflight' = inflight (-) was
       ELSE \* the handler replied without calling the service
            /\ last' = <<Exchange(in, target, <<>>, <<>>, <<>>, <<>>, <<>>, <<>>,
                                  Chain(in, FALSE, h.resp), n) @@ [age |-> AgeOf(was)]>>
            /\ inflight' = inflight (-) was
    /\ defaultModel' = IF chat /\ ~panics
                       THEN SendMessageFields(defaultModel, h.call[1].message, h.call[1].model)
                       ELSE defaultModel
    /\ UNCHANGED <<client, ui>>

\* the header of request in has been read (net/http calls the handler then
\* and reads the body when the handler asks for it): the handler chain
\* runs until it has written its reply or blocks, HandleChat in Decode
Serve(in, now) ==
    /\ Accepting(main)
    /\ \E c \in Conns(main) :
           IF AwaitsBody(in)
           THEN /\ inflight' = inflight (+) SetToBag({Reading(in, Began(in, main, c))})
                /\ main' = Arrived(main, c)
                /\ UNCHANGED <<defaultModel, client, last, svcCalls, gwCalls, upCalls, ui>>
           ELSE Proceed(in, now, EmptyBag, Arrived(main, c))

\* the body of the request of p, which is request in, has arrived: Decode
\* returns and HandleChat goes on
RequestBody(p, in) ==
    /\ BagIn(p, inflight)
    /\ p.phase = "decode"
    /\ Header(in) = p.in
    /\ Proceed(in, 0, SetToBag({p}), main)

\* the exchange of the blocked goroutine p when the outbound call has
\* ended with reply and the goroutine runs to the end of its handler
Completed(p, reply) ==
    LET chat == p.call[1].op = "SendMessage"
        panics == FaultAt(p.in) = "reply"
        gwRes == IF chat THEN CreateChatCompletionResult(reply) ELSE ListModelsResult(reply)
        svcRes == IF chat THEN SendMessageResult(gwRes) ELSE GetAvailableModelsResult(gwRes)
        resp == IF chat THEN HandleChatEnd(svcRes) ELSE HandleGetModelsEnd(svcRes)
    IN Exchange(p.in, p.target, p.call, p.greq, p.out, <<reply>>, <<gwRes>>,
                IF panics THEN <<>> ELSE <<svcRes>>,
                Chain(p.in, panics, <<resp>>), p.n)
       @@ [waited |-> p.waited, age |-> p.age]

\* the outbound call of p ends with reply
Returns(p, reply, cancelled) ==
    /\ last' = <<Completed(p, reply)>>
    /\ inflight' = inflight (-) cancelled
    /\ main' = [main EXCEPT !.panics = @ + (IF FaultAt(p.in) = "reply" THEN 1 ELSE 0)]
    /\ UNCHANGED <<defaultModel, client, svcCalls, gwCalls, upCalls, ui>>

\* the replies of the upstream to the outbound call of p
RepliesTo(p) == IF p.call[1].op = "SendMessage" THEN ChatReplies ELSE ModelsReplies

\* httpClient.Do returns to the blocked goroutine p: its error, and the
\* goroutine runs to the end of its handler, or the response whose header
\* has arrived, and the goroutine blocks again in io.ReadAll
UpstreamResponse(p, reply) ==
    /\ BagIn(p, inflight)
    /\ p.phase = "do"
    /\ reply \in RepliesTo(p)
    /\ IF Has(reply, "neterr")
       THEN Returns(p, reply, SetToBag({p}))
       ELSE /\ inflight' = (inflight (-) SetToBag({p}))
                               (+) SetToBag({[p EXCEPT !.phase = "read"]})
            /\ UNCHANGED <<defaultModel, client, last, svcCalls, gwCalls, upCalls, main, ui>>

\* io.ReadAll returns to the blocked goroutine p, with the body or with the
\* error of the read, and the goroutine runs to the end of its handler
UpstreamReply(p, reply) ==
    /\ BagIn(p, inflight)
    /\ p.phase = "read"
    /\ reply \in RepliesTo(p)
    /\ ~Has(reply, "neterr")
    /\ Returns(p, reply, SetToBag({p}))

\* every request sharing one context: a disconnect cancels all outbound
\* calls in flight
CancelledShared(p) == inflight

\* the outbound calls made with the context of p's request (r.Context()
\* handed down to http.NewRequestWithContext): its own
Cancelled(p) == SetToBag({p})

\* a response of which the read of the body failed with e
ReadFailed(status, e) == [status |-> status, body |-> NoBody, readerr |-> <<e>>]

\* the statuses of the responses to the outbound call of p
StatusesTo(p) == { r.status : r \in { x \in RepliesTo(p) : ~Has(x, "neterr") } }

\* what a goroutine blocked on the network gets when the caller of its
\* request has disconnected: the error of the read in Decode, the error of
\* the cancelled context from httpClient.Do, or that error from io.ReadAll
\* when Do had returned a response, whose status was status
Disconnected(p, status) ==
    CASE p.phase = "decode" -> [readerr |-> ErrBodyRead]
      [] p.phase = "do" -> [neterr |-> ErrCanceled]
      [] p.phase = "read" -> ReadFailed(status, ErrCanceled)

\* the caller of p's request disconnects while the goroutine is blocked:
\* the read of the body fails, or the request's context is cancelled and
\* the outbound call returns the context's error; the goroutine runs to
\* the end of its handler
ClientDisconnect(p) ==
    /\ BagIn(p, inflight)
    /\ IF p.phase = "decode"
       THEN Proceed([p.in EXCEPT !.body = Disconnected(p, 0)], 0, SetToBag({p}), main)
       ELSE \E status \in StatusesTo(p) : Returns(p, Disconnected(p, status), Cancelled(p))

\* time.Now() is read by HandleHealth only
Times(in) == IF Target(in) = "HandleHealth" THEN Clock ELSE {0}

\* the step stays within the behaviours explored: at most f goroutines
\* blocked at a time and at most c calls of the service
Within(f, c) == BagCardinality(inflight') <= f /\ svcCalls' <= c

Bounded == Within(MaxInFlight, MaxCalls)

Next ==
    \/ \E in \in Arrivals(Inputs) :
           \E now \in Times(in) : Serve(in, now) /\ Within(MaxInFlight, MaxServed)
    \/ \E p \in BagToSet(inflight), in \in Inputs :
           RequestBody(p, in) /\ Within(MaxInFlight, MaxServed)
    \/ \E p \in BagToSet(inflight), reply \in ChatReplies \cup ModelsReplies :
           UpstreamResponse(p, reply)
    \/ \E p \in BagToSet(inflight), reply \in ChatReplies \cup ModelsReplies :
           UpstreamReply(p, reply)
    \/ \E p \in BagToSet(inflight) : ClientDisconnect(p)

Spec == Init /\ [][Next]_vars

\* ------------------------------------------------------------------------
\* State machine of the server handling requests side by side
\* ------------------------------------------------------------------------

\* chat requests that name different models or differ in temperature and
\* max_tokens only, and a models request
ConcurrentInputs ==
    { Req("router", "", "POST", "/api/v1/chat", HiBody),
      Req("router", "", "POST", "/api/v1/chat",
          [obj |-> Msg("hi") @@ [model |-> JStr("mixtral-8x7b")]]),
      Req("router", "", "POST", "/api/v1/chat",
          [obj |-> Msg("hi") @@ [temperature |-> JNum(2)]]),
      Req("router", "", "POST", "/api/v1/chat",
          [obj |-> Msg("hi") @@ [max_tokens |-> JNum(5)]]),
      Req("router", "", "GET", "/api/v1/models", NoBody) }

\* outcomes of the outbound calls taken here
ConcurrentReplies ==
    { [neterr |-> ErrDeadline], HTTPReply(200, OneChoice), HTTPReply(200, TwoChoices),
      HTTPReply(200, ModelsBody), HTTPReply(500, Garbage) }

NextConcurrent ==
    \/ \E in \in Arrivals(ConcurrentInputs) :
           Serve(in, 0) /\ Within(MaxConcurrent, MaxCalls)
    \/ \E p \in BagToSet(inflight), in \in ConcurrentInputs :
           RequestBody(p, in) /\ Within(MaxConcurrent, MaxCalls)
    \/ \E p \in BagToSet(inflight), reply \in ConcurrentReplies : UpstreamResponse(p, reply)
    \/ \E p \in BagToSet(inflight), reply \in ConcurrentReplies : UpstreamReply(p, reply)
    \/ \E p \in BagToSet(inflight) : ClientDisconnect(p)

SpecConcurrent == Init /\ [][NextConcurrent]_vars

\* ------------------------------------------------------------------------
\* State machine of the server when handling a request can panic
\* ------------------------------------------------------------------------

\* requests whose handling meets a runtime fault
FaultInputs ==
    { r @@ [fault |-> f] :
        r \in { Req("router", "", "POST", "/api/v1/chat", HiBody),
                Req("router", "", "POST", "/api/v1/chat", [obj |-> Msg("")]),
                Req("router", "", "GET", "/api/v1/models", NoBody) },
        f \in {"service", "reply"} }

\* requests handled without a fault
SoundInputs ==
    { Req("router", "", "POST", "/api/v1/chat", HiBody),
      Req("router", "", "GET", "/api/v1/models", NoBody),
      Req("router", "", "GET", "/health", NoBody),
      Req("router", "", "GET", "/chat", NoBody) }

NextFaulty ==
    \/ \E in \in Arrivals(FaultInputs \cup SoundInputs) :
           \E now \in Times(in) : Serve(in, now) /\ Bounded
    \/ \E p \in BagToSet(inflight), in \in FaultInputs \cup SoundInputs :
           RequestBody(p, in) /\ Bounded
    \/ \E p \in BagToSet(inflight), reply \in ChatReplies \cup ModelsReplies :
           UpstreamResponse(p, reply)
    \/ \E p \in BagToSet(inflight), reply \in ChatReplies \cup ModelsReplies :
           UpstreamReply(p, reply)

SpecFaulty == Init /\ [][NextFaulty]_vars

\* ------------------------------------------------------------------------
\* State machine of the server with the duration of the outbound calls
\* ------------------------------------------------------------------------

\* the most seconds that pass in one step of a wait
TimeStep == 5

\* values of HTTP_TIMEOUT in the environment, in seconds
EnvHTTPTimeouts == {10, ConfigHTTPTimeout}

\* main with HTTP_TIMEOUT set to one of these values
InitTimed ==
    /\ defaultModel = ConfigDefaultModel
    /\ \E t \in EnvHTTPTimeouts :
           client = [baseURL |-> ConfigBaseURL, apiKey |-> "gsk_test", timeout |-> t]
    /\ inflight = EmptyBag
    /\ last = <<>>
    /\ svcCalls = 0
    /\ gwCalls = 0
    /\ upCalls = 0
    /\ main = Serving
    /\ ui = NewApp

\* the outcomes of the outbound call taken here
TimedReplies ==
    { [neterr |-> ErrConnRefused],
      HTTPReply(200, OneChoice), HTTPReply(500, Garbage), HTTPReply(200, ModelsBody) }

\* requests whose header arrives at once, and one whose header takes
\* TimeStep seconds
TimedInputs ==
    { Req("router", "", "POST", "/api/v1/chat", HiBody),
      Req("router", "", "POST", "/api/v1/chat", HiBody) @@ [gap |-> TimeStep],
      Req("router", "", "POST", "/api/v1/chat", [obj |-> Msg("")]),
      Req("router", "", "GET", "/api/v1/models", NoBody),
      Req("router", "", "GET", "/health", NoBody) }

\* the time after which the wait of p is ended by a timer
Limit(p) == IF p.phase = "decode" THEN ServerReadTimeout ELSE client.timeout

\* the seconds until a timer expires for the blocked goroutine p: the
\* deadline of its wait (in Decode the read deadline of the connection, in
\* the outbound call httpClient.Timeout) and the write deadline the server
\* set on the connection when it had read the header of the request
Timers(p) ==
    {Limit(p) - p.waited}
    \cup (IF p.age < ServerWriteTimeout THEN {ServerWriteTimeout - p.age} ELSE {})

\* the goroutine p after d more seconds of its wait
Aged(p, d) == [p EXCEPT !.waited = @ + d, !.age = @ + d]

\* time passes for the blocked goroutine p, TimeStep seconds or up to the
\* next instant at which a timer expires; no wait lasts longer than its
\* limit
Tick(p) ==
    /\ BagIn(p, inflight)
    /\ p.waited < Limit(p)
    /\ LET ds == Timers(p) \cup {TimeStep}
           d == CHOOSE x \in ds : \A y \in ds : x <= y
       IN inflight' = (inflight (-) SetToBag({p})) (+) SetToBag({Aged(p, d)})
    /\ UNCHANGED <<defaultModel, client, last, svcCalls, gwCalls, upCalls, main, ui>>

\* the body of the request arrives before the read deadline
RequestBodyTimed(p, in) ==
    /\ p.waited < ServerReadTimeout
    /\ RequestBody(p, in)

\* what the wait of p returns when its timer has expired: the error of the
\* read in Decode, the error of httpClient.Do, or the error of io.ReadAll
\* when the header of the response had arrived (http.Client.Timeout covers
\* the read of the body)
Expired(p, status) ==
    CASE p.phase = "decode" -> [readerr |-> ErrIOTimeout]
      [] p.phase = "do" -> [neterr |-> ErrDeadline]
      [] p.phase = "read" -> ReadFailed(status, ErrReadDeadline)

\* the timer of the wait of p has expired: the wait returns its error and
\* the goroutine runs on
Expires(p) ==
    /\ BagIn(p, inflight)
    /\ p.waited >= Limit(p)
    /\ IF p.phase = "decode"
       THEN Proceed([p.in EXCEPT !.body = Expired(p, 0)], 0, SetToBag({p}), main)
       ELSE \E status \in { r.status : r \in { x \in TimedReplies : ~Has(x, "neterr") } } :
                Returns(p, Expired(p, status), SetToBag({p}))

\* httpClient.Do returns before httpClient.Timeout has elapsed
UpstreamResponseTimed(p, reply) ==
    /\ p.waited < client.timeout
    /\ reply # [neterr |-> ErrDeadline]
    /\ UpstreamResponse(p, reply)

\* io.ReadAll returns before httpClient.Timeout has elapsed
UpstreamReplyTimed(p, reply) ==
    /\ p.waited < client.timeout
    /\ UpstreamReply(p, reply)

NextTimed ==
    \/ \E in \in Arrivals(TimedInputs) : \E now \in Times(in) : Serve(in, now) /\ Bounded
    \/ \E p \in BagToSet(inflight) : Tick(p)
    \/ \E p \in BagToSet(inflight), in \in TimedInputs : RequestBodyTimed(p, in) /\ Bounded
    \/ \E p \in BagToSet(inflight), reply \in TimedReplies : UpstreamResponseTimed(p, reply)
    \/ \E p \in BagToSet(inflight), reply \in TimedReplies : UpstreamReplyTimed(p, reply)
    \/ \E p \in BagToSet(inflight) : Expires(p)

SpecTimed == InitTimed /\ [][NextTimed]_vars

\* the server can still write to the connection of exchange e when its
\* handler returns: the write deadline, WriteTimeout after the server read
\* the header of the request, has not passed
Delivered(e) == ("age" \in DOMAIN e) => e.age < ServerWriteTimeout

\* what the client of exchange e receives: what the chain wrote, or nothing
\* (the connection is closed) when the write deadline had passed
Received(e) == IF Delivered(e) THEN e.resp ELSE <<>>

\* ------------------------------------------------------------------------
\* State machine of main, from the start of the process
\* ------------------------------------------------------------------------

\* a component that has not been constructed
Nil == <<>>

\* process environments
Envs ==
    { [Unset EXCEPT !["GROQ_API_KEY"] = k, !["HTTP_TIMEOUT"] = t, !["GROQ_BASE_URL"] = b,
                    !["PORT"] = p, !["DEFAULT_MODEL"] = m] :
        k \in {<<>>, <<"">>, <<"gsk_test">>},
        t \in {<<>>, << <<"1", "0">> >>, << <<"0">> >>, << <<"-", "5">> >>, << <<"3", "0", "s">> >>},
        b \in {<<>>, <<"">>, <<"http://localhost:9999">>},
        p \in {<<>>, <<"">>},
        m \in {<<>>, <<"">>, <<"mixtral-8x7b">>} }

\* .env files: none, or one that sets the API key
Files == {Unset, [Unset EXCEPT !["GROQ_API_KEY"] = <<"gsk_file">>]}

InitMain ==
    /\ \E env \in Envs, file \in Files : main = Started(env, file)
    /\ ui = NewApp
    /\ defaultModel = Nil
    /\ client = Nil
    /\ inflight = EmptyBag
    /\ last = <<>>
    /\ svcCalls = 0
    /\ gwCalls = 0
    /\ upCalls = 0

\* main, lines 37-42: config.Load, log.Fatalf on its error
MainLoad ==
    /\ main.pc = "start"
    /\ LET r == Load(main.env, main.file) IN
       main' = IF IsOk(r) THEN [main EXCEPT !.pc = "loaded", !.cfg = r.val]
               ELSE [main EXCEPT !.pc = "fatal"]
    /\ UNCHANGED <<defaultModel, client, inflight, last, svcCalls, gwCalls, upCalls, ui>>

\* main, lines 50-102: NewGroqClient, NewChatService, NewChatHandler,
\* SetupRouter and the http.Server
MainConstruct ==
    /\ main.pc = "loaded"
    /\ LET cfg == main.cfg[1]
           groqClient == NewGroqClient(cfg.GroqAPIKey, cfg.GroqBaseURL, cfg.HTTPTimeout)
       IN IF "panic" \in DOMAIN groqClient
          THEN /\ main' = [main EXCEPT !.pc = "panicked"]
               /\ UNCHANGED <<client, defaultModel>>
          ELSE /\ client' = groqClient
               /\ defaultModel' = cfg.DefaultModel
               /\ main' = [main EXCEPT !.pc = "built", !.server = <<NewServer(cfg)>>]
    /\ UNCHANGED <<inflight, last, svcCalls, gwCalls, upCalls, ui>>

\* main, lines 108-124: ListenAndServe starts to accept, or fails (the
\* address is in use) and main ends in log.Fatalf
MainListen(ok) ==
    /\ main.pc = "built"
    /\ main' = [main EXCEPT !.pc = IF ok THEN "serving" ELSE "fatal"]
    /\ UNCHANGED <<defaultModel, client, inflight, last, svcCalls, gwCalls, upCalls, ui>>

NextMain ==
    \/ MainLoad
    \/ MainConstruct
    \/ \E ok \in BOOLEAN : MainListen(ok)
    \/ \E in \in Arrivals(TimedInputs) : \E now \in Times(in) : Serve(in, now) /\ Bounded
    \/ \E p \in BagToSet(inflight), in \in TimedInputs : RequestBody(p, in) /\ Bounded
    \/ \E p \in BagToSet(inflight), reply \in TimedReplies : UpstreamResponse(p, reply)
    \/ \E p \in BagToSet(inflight), reply \in TimedReplies : UpstreamReply(p, reply)

SpecMain == InitMain /\ [][NextMain]_vars

\* ------------------------------------------------------------------------
\* State machine of a ChatServiceImpl over a stub repository
\* ------------------------------------------------------------------------

ServiceMessages == {"", " ", "hi"}
ServiceModels == {"", "mixtral-8x7b"}

\* what a stub CreateChatCompletion can be programmed to return
StubChatResults == { CreateChatCompletionResult(reply) : reply \in ChatReplies }

\* what a stub ListModels can be programmed to return
StubModelsResults == { ListModelsResult(reply) : reply \in ModelsReplies }

\* NewChatService(stub, dflt), for any default model
InitService ==
    /\ defaultModel \in {"", ConfigDefaultModel}
    /\ client = [baseURL |-> "stub", apiKey |-> "stub", timeout |-> ConfigHTTPTimeout]
    /\ inflight = EmptyBag
    /\ last = <<>>
    /\ svcCalls = 0
    /\ gwCalls = 0
    /\ upCalls = 0
    /\ main = Serving
    /\ ui = NewApp

ServiceCall(op, message, model) ==
    [via |-> "service", op |-> op, message |-> message, model |-> model]

\* SendMessage(ctx, message, model) on a service whose repository is a stub
\* that returns stub
CallSendMessage(message, model, stub) ==
    /\ svcCalls < MaxCalls
    /\ LET in == ServiceCall("SendMessage", message, model)
           s == SendMessageRequest(defaultModel, message, model)
           reachesRepo == s.err = <<>>
       IN
       /\ svcCalls' = svcCalls + 1
       /\ gwCalls' = gwCalls + (IF reachesRepo THEN 1 ELSE 0)
       /\ LET n == Count(svcCalls' - svcCalls, gwCalls' - gwCalls, 0) IN
          last' = IF reachesRepo
                  THEN <<Exchange(in, "SendMessage", <<in>>, s.request, <<>>, <<>>, <<stub>>,
                                  <<SendMessageResult(stub)>>, <<>>, n)>>
                  ELSE <<Exchange(in, "SendMessage", <<in>>, <<>>, <<>>, <<>>, <<>>,
                                  <<Fail(s.err[1])>>, <<>>, n)>>
    /\ defaultModel' = SendMessageFields(defaultModel, message, model)
    /\ UNCHANGED <<client, inflight, upCalls, main, ui>>

\* GetAvailableModels(ctx) on a service whose repository is a stub
CallGetAvailableModels(stub) ==
    /\ svcCalls < MaxCalls
    /\ svcCalls' = svcCalls + 1
    /\ gwCalls' = gwCalls + 1
    /\ LET in == ServiceCall("GetAvailableModels", "", "") IN
       last' = <<Exchange(in, "GetAvailableModels", <<in>>, <<>>, <<>>, <<>>, <<stub>>,
                          <<GetAvailableModelsResult(stub)>>, <<>>, Count(1, 1, 0))>>
    /\ UNCHANGED <<defaultModel, client, inflight, upCalls, main, ui>>

NextService ==
    \/ \E message \in ServiceMessages, model \in ServiceModels, stub \in StubChatResults :
           CallSendMessage(message, model, stub)
    \/ \E stub \in StubModelsResults : CallGetAvailableModels(stub)

SpecService == InitService /\ [][NextService]_vars

\* ------------------------------------------------------------------------
\* Properties
\* ------------------------------------------------------------------------

Range(q) == { q[i] : i \in DOMAIN q }

\* C1: a SendMessage call with a non-empty message and an empty model hands
\* the repository a request whose model is the default model (the call
\* fails with the empty-model error, handing over nothing, only when the
\* default model is empty too); with a non-empty model the request carries
\* exactly that model.
C1_DefaultModel ==
    \A e \in Range(last) :
        (e.in.op = "SendMessage" /\ e.in.message # "") =>
            /\ (e.in.model = "" /\ defaultModel # "") =>
                   (e.greq # <<>> /\ e.greq[1].Model = defaultModel)
            /\ (e.in.model = "" /\ defaultModel = "") =>
                   (e.greq = <<>> /\ e.svcRes = <<Fail(AppErrEmptyModel)>>)
            /\ e.in.model # "" => (e.greq # <<>> /\ e.greq[1].Model = e.in.model)

C1_Witness ==
    /\ last # <<>>
    /\ last[1].in.op = "SendMessage"
    /\ last[1].in.message # ""
    /\ last[1].in.model = ""
    /\ last[1].greq # <<>>
    /\ last[1].greq[1].Model = ConfigDefaultModel

\* C2: a SendMessage call with the empty message returns the empty-message
\* error and no value, whatever the model argument, and the step leaves the
\* repository's call count unchanged.
C2_EmptyMessage ==
    [][(svcCalls' # svcCalls /\ last'[1].in.op = "SendMessage" /\ last'[1].in.message = "")
         => (/\ last'[1].svcRes = <<Fail(AppErrEmptyMessage)>>
             /\ last'[1].greq = <<>>
             /\ gwCalls' = gwCalls)]_vars

C2_Witness ==
    /\ last # <<>>
    /\ last[1].in.op = "SendMessage"
    /\ last[1].in.message = ""
    /\ last[1].in.model # ""
    /\ last[1].svcRes = <<Fail(AppErrEmptyMessage)>>
    /\ gwCalls > 0

\* the goroutine p is blocked in Decode: the body of its request has not
\* been read
Decoding(p) == p.phase = "decode"

\* the body of a chat request does not decode into the ChatRequest DTO: the
\* read of it fails, it is not JSON, or its message is not a string
DecodeFails(b) ==
    \/ Has(b, "readerr")
    \/ Has(b, "garbage")
    \/ Has(b.obj, "message") /\ ~IsJStr(b.obj.message)

\* the body of a chat request decodes but is invalid: message empty or
\* absent, temperature present and outside [0,2], or max_tokens negative
InvalidBody(b) ==
    \/ ~Has(b.obj, "message")
    \/ b.obj.message.s = ""
    \/ Has(b.obj, "temperature") /\ (b.obj.temperature.n < 0 \/ b.obj.temperature.n > 2)
    \/ Has(b.obj, "max_tokens") /\ b.obj.max_tokens.n < 0

Status(e) == e.resp[1].status

\* C3: a POST handled by the chat handler is answered 400 exactly when its
\* body does not decode or is invalid (so temperature 0, temperature 2,
\* max_tokens 0 and an absent temperature are accepted), every 400 carries
\* a non-empty error field, and only requests with a good body get as far
\* as the outbound call.
C3_BadRequest ==
    /\ \A e \in Range(last) :
           /\ (e.target = "HandleChat" /\ e.in.method = "POST") =>
                  (Status(e) = 400 <=> (DecodeFails(e.in.body) \/ InvalidBody(e.in.body)))
           /\ (e.resp # <<>> /\ Status(e) = 400) =>
                  (/\ Has(e.resp[1].body, "error")
                   /\ e.resp[1].body.error # <<>>
                   /\ e.resp[1].body.success = FALSE)
    /\ \A p \in BagToSet(inflight) :
           (p.target = "HandleChat" /\ ~Decoding(p)) =>
               (p.out # <<>> /\ ~(DecodeFails(p.in.body) \/ InvalidBody(p.in.body)))

C3_Witness ==
    /\ last # <<>>
    /\ last[1].in.body = [obj |-> Msg("hi") @@ [temperature |-> JNum(3)]]
    /\ Status(last[1]) = 400
    /\ \E p \in BagToSet(inflight) :
           p.in.body = [obj |-> Msg("hi") @@ [temperature |-> JNum(2)]]

\* C4: the chat handler checks the method, then decodes, then validates,
\* then calls the service, and stops at the first stage that fails: a wrong
\* method is answered 405 whatever the body, an undecodable body 400 with
\* the decoder's message, an invalid body 400 with a validation message;
\* an exchange answered 400 or 405 made no service, repository or outbound
\* call, and every other exchange of the chat handler made the service call.
C4_StageOrder ==
    \A e \in Range(last) :
        /\ e.target = "HandleChat" =>
               /\ e.in.method # "POST" => Status(e) = 405
               /\ (e.in.method = "POST" /\ DecodeFails(e.in.body)) =>
                      (Status(e) = 400 /\ e.resp[1].body.error[1] = Lit("JSON inválido: "))
               /\ (e.in.method = "POST" /\ ~DecodeFails(e.in.body) /\ InvalidBody(e.in.body)) =>
                      (Status(e) = 400 /\ e.resp[1].body.error[1] # Lit("JSON inválido: "))
               /\ Status(e) \notin {400, 405} => e.n.svc = 1
        /\ (e.resp # <<>> /\ Status(e) \in {400, 405}) =>
               (e.n = Count(0, 0, 0) /\ e.call = <<>> /\ e.out = <<>>)

C4_Witness ==
    /\ last # <<>>
    /\ last[1].in = Req("router", "", "POST", "/api/v1/chat", [obj |-> Msg("")])
    /\ Status(last[1]) = 400
    /\ last[1].resp[1].body.error # <<>>
    /\ upCalls = 0

\* the upstream answered (httpClient.Do returned a response and its body
\* was read)
Answered(e) == e.reply # <<>> /\ Has(e.reply[1], "status") /\ e.reply[1].readerr = <<>>

Is2xx(status) == status >= 200 /\ status <= 299

\* the upstream answered a chat call 2xx with at least one choice
AnsweredWithChoice(e) ==
    /\ e.target = "HandleChat"
    /\ Answered(e)
    /\ Is2xx(e.reply[1].status)
    /\ Has(e.reply[1].body, "obj")
    /\ Has(e.reply[1].body.obj, "choices")
    /\ IsJArr(e.reply[1].body.obj.choices)
    /\ Len(e.reply[1].body.obj.choices.a) >= 1

\* the model the client asked for, "" when it sent none
RequestedModel(in) == IF Has(in.body.obj, "model") THEN in.body.obj.model.s ELSE ""

\* the reply to the client is 200 with the first choice's content and the
\* upstream's token counters
RelaysFirstChoice(e) ==
    LET up == e.reply[1].body.obj
        body == e.resp[1].body
    IN /\ Status(e) = 200
       /\ body.success = TRUE
       /\ body.message = up.choices.a[1].o.message.o.content.s
       /\ body.usage.prompt_tokens = up.usage.o.prompt_tokens.n
       /\ body.usage.completion_tokens = up.usage.o.completion_tokens.n
       /\ body.usage.total_tokens = up.usage.o.total_tokens.n

\* C5 as stated: the model of the 200 reply is the model in effect for the
\* request, the default model when the client sent none.
C5_ModelInEffect ==
    \A e \in Range(last) :
        AnsweredWithChoice(e) =>
            /\ RelaysFirstChoice(e)
            /\ e.resp[1].body.model =
                   (IF RequestedModel(e.in) = "" THEN defaultModel ELSE RequestedModel(e.in))

\* C5 amended: for an accepted chat request answered 2xx with at least one
\* choice the client receives 200 with success, the content of the first
\* choice, the upstream's token counters, and the model named in the
\* upstream reply.
C5_RelaysUpstream ==
    \A e \in Range(last) :
        AnsweredWithChoice(e) =>
            /\ RelaysFirstChoice(e)
            /\ e.resp[1].body.model = e.reply[1].body.obj.model.s

C5_Witness ==
    /\ last # <<>>
    /\ last[1].in = Req("router", "", "POST", "/api/v1/chat", HiBody)
    /\ last[1].reply = <<HTTPReply(200, TwoChoices)>>
    /\ last[1].resp[1].body.message = "first"
    /\ last[1].resp[1].body.model = "mixtral-8x7b"

\* C6: when the upstream answers a chat call with a status outside 200..299
\* the client receives 500, whatever that status was, with success false and
\* the fixed text "error al procesar el mensaje": no piece of the text is
\* the upstream status or the upstream body.
C6_GenericError ==
    \A e \in Range(last) :
        (e.target = "HandleChat" /\ Answered(e) /\ ~Is2xx(e.reply[1].status)) =>
            /\ Status(e) = 500
            /\ e.resp[1].body.success = FALSE
            /\ e.resp[1].body.code = 500
            /\ e.resp[1].body.error = <<Lit("error al procesar el mensaje")>>
            /\ \A piece \in Range(e.resp[1].body.error) :
                   ~Has(piece, "code") /\ ~Has(piece, "raw")

C6_Witness ==
    /\ last # <<>>
    /\ last[1].target = "HandleChat"
    /\ last[1].reply = <<HTTPReply(429, ErrorBody)>>
    /\ [code |-> 429] \in Range(last[1].svcRes[1].err[1].text)
    /\ [raw |-> ErrorBody] \in Range(last[1].svcRes[1].err[1].text)
    /\ Status(last[1]) = 500

\* C7: when the repository returns a response without choices, SendMessage
\* returns the no-choices error and no value, and the chat handler answers
\* 500.
C7_EmptyResponse ==
    \A e \in Range(last) :
        (/\ e.target = "HandleChat"
         /\ e.gwRes # <<>>
         /\ IsOk(e.gwRes[1])
         /\ Len(e.gwRes[1].val[1].Choices) = 0) =>
            /\ e.svcRes[1].val = <<>>
            /\ e.svcRes[1].err = <<AppErrNoChoices>>
            /\ Status(e) = 500
            /\ ~Has(e.resp[1].body, "message")

C7_Witness ==
    /\ last # <<>>
    /\ last[1].target = "HandleChat"
    /\ last[1].reply = <<HTTPReply(200, ZeroChoices)>>
    /\ IsOk(last[1].gwRes[1])
    /\ Status(last[1]) = 500

\* the body of an upstream reply does not decode into the type the call
\* expects
Undecodable(e) ==
    LET b == e.reply[1].body IN
    \/ Has(b, "garbage")
    \/ /\ e.call[1].op = "SendMessage"
       /\ Has(b.obj, "choices")
       /\ ~IsJArr(b.obj.choices)
    \/ /\ e.call[1].op = "GetAvailableModels"
       /\ Has(b.obj, "data")
       /\ \E k \in DOMAIN b.obj.data.a :
              Has(b.obj.data.a[k].o, "created") /\ ~IsJStr(b.obj.data.a[k].o.created)

\* C8: for every answered upstream call the repository looks at the status
\* first: outside 200..299 it fails with an error whose text has the status
\* and the raw body, also when the body would decode; 2xx with a body that
\* does not decode fails with an error that has neither; only 2xx with a
\* body that decodes succeeds.
C8_Classification ==
    \A e \in Range(last) :
        Answered(e) =>
            LET r == e.reply[1]
                g == e.gwRes[1]
            IN /\ ~Is2xx(r.status) =>
                      /\ ~IsOk(g)
                      /\ [code |-> r.status] \in Range(g.err[1].text)
                      /\ [raw |-> r.body] \in Range(g.err[1].text)
               /\ (Is2xx(r.status) /\ Undecodable(e)) =>
                      /\ ~IsOk(g)
                      /\ \A piece \in Range(g.err[1].text) :
                             ~Has(piece, "code") /\ ~Has(piece, "raw")
               /\ (Is2xx(r.status) /\ ~Undecodable(e)) => IsOk(g)

C8_Witness ==
    /\ last # <<>>
    /\ last[1].reply = <<HTTPReply(500, OneChoice)>>
    /\ ~IsOk(last[1].gwRes[1])
    /\ [code |-> 500] \in Range(last[1].gwRes[1].err[1].text)

\* a request for the chat handler with the method it serves
ChatRequestIn(in) ==
    /\ in.method = "POST"
    /\ \/ in.via = "router" /\ in.path = "/api/v1/chat"
       \/ in.via = "handler" /\ in.handler = "HandleChat"

\* a request for the models handler with the method it serves
ModelsRequestIn(in) ==
    /\ in.method = "GET"
    /\ \/ in.via = "router" /\ in.path = "/api/v1/models"
       \/ in.via = "handler" /\ in.handler = "HandleGetModels"

\* a chat request with a good body, or a models request
Accepted(in) ==
    \/ ChatRequestIn(in) /\ ~DecodeFails(in.body) /\ ~InvalidBody(in.body)
    \/ ModelsRequestIn(in)

\* the outbound call failed: no response, unreadable body, or not 2xx
UpstreamFailed(e) == ~Answered(e) \/ ~Is2xx(e.reply[1].status)

\* C9: an accepted chat or models request makes exactly one service call,
\* one repository call and one outbound call, any other request makes
\* none; a completed accepted request has had exactly one upstream reply,
\* and when that attempt failed the client got 500; so the counters of
\* service, repository and outbound calls are always equal.
C9_SingleAttempt ==
    /\ upCalls = gwCalls
    /\ gwCalls = svcCalls
    /\ \A e \in Range(last) :
           /\ Accepted(e.in) =>
                  /\ e.n = Count(1, 1, 1)
                  /\ Len(e.out) = 1
                  /\ Len(e.reply) = 1
                  /\ UpstreamFailed(e) => Status(e) = 500
           /\ ~Accepted(e.in) => (e.n = Count(0, 0, 0) /\ e.out = <<>>)
    /\ \A p \in BagToSet(inflight) :
           IF Decoding(p) THEN p.n = Count(0, 0, 0) /\ p.out = <<>>
           ELSE Accepted(p.in) /\ p.n = Count(1, 1, 1) /\ Len(p.out) = 1

C9_Witness ==
    /\ last # <<>>
    /\ Accepted(last[1].in)
    /\ last[1].reply = <<[neterr |-> ErrDeadline]>>
    /\ Status(last[1]) = 500
    /\ upCalls = 1
    /\ inflight = EmptyBag

\* the method each registered path serves
RegisteredMethod ==
    [p \in {"/api/v1/chat", "/api/v1/models", "/health", "/"} |->
        IF p = "/api/v1/chat" THEN "POST" ELSE "GET"]

\* a request with a method its path or handler does not serve
WrongMethod(in) ==
    \/ /\ in.via = "router"
       /\ in.path \in DOMAIN RegisteredMethod
       /\ in.method # RegisteredMethod[in.path]
    \/ in.via = "handler" /\ in.handler = "HandleChat" /\ in.method # "POST"
    \/ in.via = "handler" /\ in.handler = "HandleGetModels" /\ in.method # "GET"

Alias == [p \in {"/chat", "/models"} |-> "/api/v1" \o p]

\* C11 as stated: a request on /chat or /models reaches the handler that
\* the same request reaches on /api/v1/chat or /api/v1/models, so both
\* paths of a pair give the same outcome.
C11_BothPaths ==
    \A e \in Range(last) :
        (e.in.via = "router" /\ e.in.path \in DOMAIN Alias) =>
            /\ e.target = Route(e.in.method, Alias[e.in.path])
            /\ Status(e) # 404

\* C11 amended: the chat operation is served on /api/v1/chat and the
\* models operation on /api/v1/models only; a request on /chat or /models
\* reaches no handler and makes no call: the router answers it 404, unless
\* it is a CORS preflight request, which the CORS handler answers 204 on
\* every path.
C11_VersionedPathsOnly ==
    /\ \A e \in Range(last) :
           e.in.via = "router" =>
               /\ e.in.path \in DOMAIN Alias =>
                      /\ IF IsPreflight(e.in)
                         THEN e.target = "preflight" /\ Status(e) = 204
                         ELSE e.target = "notFound" /\ Status(e) = 404
                      /\ e.call = <<>>
                      /\ e.n = Count(0, 0, 0)
               /\ (e.in.path = "/api/v1/chat" /\ e.in.method = "POST") =>
                      e.target = "HandleChat"
               /\ (e.in.path = "/api/v1/models" /\ e.in.method = "GET") =>
                      e.target = "HandleGetModels"
    /\ \A p \in BagToSet(inflight) :
           p.in.via = "router" => p.in.path \in {"/api/v1/chat", "/api/v1/models"}

C11_Witness ==
    /\ last # <<>>
    /\ last[1].in = Req("router", "", "POST", "/chat", HiBody)
    /\ Status(last[1]) = 404
    /\ \E p \in BagToSet(inflight) : p.in = Req("router", "", "POST", "/api/v1/chat", HiBody)

\* a GET /health received by the router
HealthRequestIn(in) == in.via = "router" /\ in.path = "/health" /\ in.method = "GET"

\* C12: every GET /health is answered in the step that receives it, with
\* 200, status "healthy", the service name and the current Unix time, and
\* without a service, repository or outbound call; no health request ever
\* waits for the upstream.
C12_Health ==
    /\ \A e \in Range(last) :
           HealthRequestIn(e.in) =>
               /\ e.target = "HandleHealth"
               /\ Status(e) = 200
               /\ e.resp[1].body.status = "healthy"
               /\ e.resp[1].body.service = "groq-api"
               /\ e.resp[1].body.timestamp \in Clock
               /\ e.n = Count(0, 0, 0)
               /\ e.reply = <<>>
    /\ \A p \in BagToSet(inflight) : ~HealthRequestIn(p.in)
    /\ ENABLED Serve(Req("router", "", "GET", "/health", NoBody), 1700000000)

\* a health request answered while another request waits for the body of
\* the upstream's response
C12_Witness ==
    /\ last # <<>>
    /\ HealthRequestIn(last[1].in)
    /\ Status(last[1]) = 200
    /\ \E p \in BagToSet(inflight) : p.phase = "read" /\ p.n.up = 1

\* the models array of an upstream reply body, empty when it has none
UpstreamModels(e) ==
    LET b == e.reply[1].body IN
    IF Has(b, "obj") /\ Has(b.obj, "data") /\ IsJArr(b.obj.data) THEN b.obj.data.a ELSE <<>>

\* C13: when GetAvailableModels fails the models handler answers 500 with
\* success false and the fixed text "error al obtener modelos"; otherwise
\* it answers 200 with success true and a list as long as the list the
\* service returned and as the upstream's data array, whose entry i has
\* id and name equal to the id of upstream entry i and owned_by equal to
\* its owner.
C13_Models ==
    \A e \in Range(last) :
        (e.target = "HandleGetModels" /\ e.svcRes # <<>>) =>
            LET res == e.svcRes[1]
                body == e.resp[1].body
            IN /\ ~IsOk(res) =>
                      /\ Status(e) = 500
                      /\ body.success = FALSE
                      /\ body.error = <<Lit("error al obtener modelos")>>
               /\ IsOk(res) =>
                      /\ Status(e) = 200
                      /\ body.success = TRUE
                      /\ Has(body, "models")
                      /\ Len(body.models) = Len(res.val[1].Data)
                      /\ Len(body.models) = Len(UpstreamModels(e))
                      /\ \A i \in DOMAIN body.models :
                             /\ body.models[i].id = res.val[1].Data[i].ID
                             /\ body.models[i].id = StrField(UpstreamModels(e)[i].o, "id")
                             /\ body.models[i].name = body.models[i].id
                             /\ body.models[i].owned_by = StrField(UpstreamModels(e)[i].o, "owned_by")

\* handling the request of exchange e ran into its fault
Panicked(e) ==
    \/ FaultAt(e.in) = "service" /\ e.call # <<>>
    \/ FaultAt(e.in) = "reply" /\ e.reply # <<>>

\* C14: a request whose handling panics, in the service call or after the
\* outbound call returned, is answered 500 with success false and the text
\* "internal server error"; the process keeps serving: a request handled
\* without a fault gets its handler's reply whatever panics came before,
\* and a GET /health can be served in every reachable state.
C14_PanicRecovered ==
    /\ main.pc = "serving"
    /\ \A e \in Range(last) :
           /\ e.resp # <<>>
           /\ Panicked(e) =>
                  /\ Status(e) = 500
                  /\ e.resp[1].body.success = FALSE
                  /\ e.resp[1].body.error = <<Lit("internal server error")>>
           /\ ~Panicked(e) =>
                  /\ AnsweredWithChoice(e) => RelaysFirstChoice(e)
                  /\ HealthRequestIn(e.in) => Status(e) = 200
                  /\ Has(e.resp[1].body, "error") =>
                         e.resp[1].body.error # <<Lit("internal server error")>>
    /\ ENABLED Serve(Req("router", "", "GET", "/health", NoBody), 1700000000)

\* a chat request relayed normally after the handling of an earlier request
\* panicked
C14_Witness ==
    /\ main.panics >= 1
    /\ last # <<>>
    /\ ~Panicked(last[1])
    /\ AnsweredWithChoice(last[1])
    /\ Status(last[1]) = 200
    /\ inflight = EmptyBag

\* the outbound call ended with reply because httpClient.Timeout elapsed,
\* in httpClient.Do or in the read of the body
TimedOut(reply) ==
    \/ reply = [neterr |-> ErrDeadline]
    \/ Has(reply, "readerr") /\ reply.readerr = <<ErrReadDeadline>>

\* C15 as stated: no outbound call lasts longer than the configured
\* timeout, a call that has lasted that long ends with the deadline error,
\* whether the upstream had sent nothing or only a part of its response,
\* and the client of its request then receives a 500 response.
C15_TimeoutAnswered ==
    /\ \A p \in BagToSet(inflight) : ~Decoding(p) => p.waited <= client.timeout
    /\ \A e \in Range(last) :
           (e.reply # <<>> /\ e.waited >= client.timeout) =>
               /\ TimedOut(e.reply[1])
               /\ "context.DeadlineExceeded" \in e.gwRes[1].err[1].is
               /\ Received(e) # <<>>
               /\ Received(e)[1].status = 500

\* the outbound call ended with reply because its context was cancelled, in
\* httpClient.Do or in the read of the body
WasCancelled(reply) ==
    \/ reply = [neterr |-> ErrCanceled]
    \/ Has(reply, "readerr") /\ reply.readerr = <<ErrCanceled>>

\* C16: a step that ends an outbound call with the cancellation error, from
\* httpClient.Do or from the read of the body, takes exactly the request
\* whose caller disconnected out of the calls in flight and leaves every
\* other call in flight as it was; it makes no service, repository or
\* outbound call, the cancelled request has made exactly one outbound call
\* and its client is written a 500.
C16_Cancellation ==
    [][(/\ BagCardinality(inflight') < BagCardinality(inflight)
        /\ last'[1].reply # <<>>
        /\ WasCancelled(last'[1].reply[1]))
       => /\ \E p \in BagToSet(inflight) :
                 /\ p.in = last'[1].in
                 /\ inflight' = inflight (-) SetToBag({p})
          /\ upCalls' = upCalls
          /\ gwCalls' = gwCalls
          /\ svcCalls' = svcCalls
          /\ last'[1].n.up = 1
          /\ ~IsOk(last'[1].gwRes[1])
          /\ "context.Canceled" \in last'[1].gwRes[1].err[1].is
          /\ Status(last'[1]) = 500]_vars

\* a request cancelled in the read of the upstream's body while another
\* request is still waiting for the upstream
C16_Witness ==
    /\ last # <<>>
    /\ last[1].reply = <<ReadFailed(StatusOK, ErrCanceled)>>
    /\ last[1].in = Req("router", "", "POST", "/api/v1/chat", HiBody)
    /\ \E p \in BagToSet(inflight) :
           p.in = Req("router", "", "GET", "/api/v1/models", NoBody) /\ p.phase = "do"
    /\ upCalls = 2

\* the reply of an exchange without the reading of the clock
Timeless(resp) ==
    IF resp # <<>> /\ Has(resp[1].body, "timestamp")
    THEN <<[resp[1] EXCEPT !.body.timestamp = 0]>>
    ELSE resp

\* what handling a request produced: the request handed to the repository,
\* the outbound request and the reply to the client
Outcome(e) == [greq |-> e.greq, out |-> e.out, resp |-> Timeless(e.resp)]

\* C17: the fields of the service and of the gateway never change; two
\* requests in flight with the same input have handed the same request to
\* the repository and sent the same outbound request, whatever was handled
\* between them; and an exchange with the same input and the same upstream
\* reply as the exchange completed before it has the same outcome.
C17_NoSharedState ==
    /\ [](\A p, q \in BagToSet(inflight) :
             p.in = q.in => (p.greq = q.greq /\ p.out = q.out))
    /\ [][defaultModel' = defaultModel /\ client' = client]_vars
    /\ [][(/\ last # <<>>
            /\ last' # <<>>
            /\ last'[1].in = last[1].in
            /\ last'[1].reply = last[1].reply)
           => Outcome(last'[1]) = Outcome(last[1])]_vars

\* a request without model handed over with the default model while a
\* request naming another model is in flight
C17_Witness ==
    /\ last # <<>>
    /\ last[1].in = Req("router", "", "POST", "/api/v1/chat", HiBody)
    /\ last[1].greq[1].Model = ConfigDefaultModel
    /\ last[1].reply # <<>>
    /\ \E p \in BagToSet(inflight) : p.greq # <<>> /\ p.greq[1].Model = "mixtral-8x7b"
    /\ svcCalls = 2

\* the API key is absent from the environment config.Load reads
APIKeyAbsent == Getenv(DotenvLoad(main.env, main.file), "GROQ_API_KEY", "") = ""

\* C18: in a run without API key main ends in the fatal error of
\* config.Load with no configuration, no client, no service and no server;
\* a client, a service or a server exists, the server accepts requests and
\* a request has been handled only in runs whose configuration passed
\* Validate.
C18_ValidatedBeforeStart ==
    /\ (APIKeyAbsent /\ main.pc # "start") =>
           /\ main.pc = "fatal"
           /\ main.cfg = <<>>
           /\ client = Nil
           /\ defaultModel = Nil
           /\ main.server = <<>>
    /\ (\/ main.pc \in {"built", "serving"}
        \/ client # Nil
        \/ defaultModel # Nil
        \/ main.server # <<>>
        \/ last # <<>>
        \/ inflight # EmptyBag) =>
           /\ main.cfg # <<>>
           /\ main.cfg[1].GroqAPIKey # ""
           /\ main.cfg[1].GroqBaseURL # ""
           /\ main.cfg[1].Port # ""
           /\ main.cfg[1].HTTPTimeout > 0

\* main has ended in the fatal error with GROQ_API_KEY set to the empty
\* string
C18_Witness ==
    /\ main.pc = "fatal"
    /\ main.env["GROQ_API_KEY"] = <<"">>
    /\ main.env["HTTP_TIMEOUT"] = << <<"1", "0">> >>
    /\ client = Nil

\* C19: a SendMessage call with a non-empty text and a model in effect
\* hands the repository a request, and every request handed over has
\* exactly one message, whose role is "user" and whose content is the text
\* of the call, character for character.
C19_SingleUserMessage ==
    \A e \in Range(last) :
        e.in.op = "SendMessage" =>
            /\ (e.in.message # "" /\ (e.in.model # "" \/ defaultModel # "")) => e.greq # <<>>
            /\ e.greq # <<>> =>
                   /\ Len(e.greq[1].Messages) = 1
                   /\ e.greq[1].Messages[1].Role = "user"
                   /\ e.greq[1].Messages[1].Content = e.in.message

\* the text of one blank handed over as it is
C19_Witness ==
    /\ last # <<>>
    /\ last[1].in.op = "SendMessage"
    /\ last[1].in.message = " "
    /\ last[1].greq # <<>>
    /\ last[1].greq[1].Messages = <<[Role |-> "user", Content |-> " "]>>

Roles == {"system", "user", "assistant"}

\* the messages of the chat response held by result r, none when r is an
\* error or a list of models
MessagesOf(r) ==
    IF r # <<>> /\ IsOk(r[1]) /\ Has(r[1].val[1], "Choices")
    THEN { r[1].val[1].Choices[i].Message : i \in DOMAIN r[1].val[1].Choices }
    ELSE {}

\* C20 as stated: every message of a request handed to the repository and
\* every message of a response the repository decoded and the service
\* passed on has a role among system, user and assistant; the service
\* passes the decoded response on as it is.
C20_RoleEnum ==
    /\ \A p \in BagToSet(inflight) :
           \A m \in Range(IF p.greq = <<>> THEN <<>> ELSE p.greq[1].Messages) : m.Role \in Roles
    /\ \A e \in Range(last) :
           /\ \A m \in Range(IF e.greq = <<>> THEN <<>> ELSE e.greq[1].Messages) : m.Role \in Roles
           /\ \A m \in MessagesOf(e.gwRes) : m.Role \in Roles
           /\ \A m \in MessagesOf(e.svcRes) : m.Role \in Roles
           /\ (e.svcRes # <<>> /\ IsOk(e.svcRes[1])) => e.svcRes = e.gwRes

\* ------------------------------------------------------------------------
\* State machine of the server from listening to the end of the process
\* (main.go, waitForShutdown)
\* ------------------------------------------------------------------------

\* the timeout of the context waitForShutdown gives server.Shutdown, in
\* seconds
ShutdownTimeout == 30

\* the signals waitForShutdown is notified of
Signals == {"SIGINT", "SIGTERM"}

\* values of HTTP_TIMEOUT in the environment, in seconds: the default and
\* one longer than the shutdown allows
ShutdownHTTPTimeouts == {ConfigHTTPTimeout, ConfigHTTPTimeout + 30}

\* Shutdown takes a connection that has sent nothing for an idle one, and
\* closes it, when its age in whole seconds is more than this (net/http,
\* closeIdleConns)
NewConnGrace == 5

\* the most seconds, rounded up, between two looks of Shutdown at the
\* connections (net/http polls at most some 500 ms apart)
PollInterval == 1

\* the seconds after the signal by which Shutdown has closed every
\* connection that has sent nothing: one accepted in the second of the
\* signal is more than NewConnGrace whole seconds old one second later,
\* and Shutdown looks at it within PollInterval from then
IdleClosedBy == NewConnGrace + 1 + PollInterval

\* cap on the connections that are open and have sent nothing
MaxFresh == 1

\* the server is listening; quit is the signal received, elapsed the time
\* since server.Shutdown was called, fresh the ages in seconds of the
\* connections that were accepted and have sent nothing yet, the oldest
\* first, late the number of requests
\* that arrived after the signal, lateAt when the last of them did, and
\* abandoned the number of handlers that were still running when the
\* process ended
InitShutdown ==
    /\ defaultModel = ConfigDefaultModel
    /\ \E t \in ShutdownHTTPTimeouts :
           client = [baseURL |-> ConfigBaseURL, apiKey |-> "gsk_test", timeout |-> t]
    /\ inflight = EmptyBag
    /\ last = <<>>
    /\ svcCalls = 0
    /\ gwCalls = 0
    /\ upCalls = 0
    /\ main = Serving @@ [quit |-> <<>>, elapsed |-> 0, fresh |-> <<>>, late |-> 0, lateAt |-> 0,
                           abandoned |-> 0]
    /\ ui = NewApp

\* the listener accepts a connection, on which nothing is sent yet
Connect ==
    /\ main.pc = "serving"
    /\ Len(main.fresh) < MaxFresh
    /\ main' = [main EXCEPT !.fresh = Append(@, 0)]
    /\ UNCHANGED <<defaultModel, client, inflight, last, svcCalls, gwCalls, upCalls, ui>>

\* the client closes a connection on which it has sent nothing
Disconnect ==
    /\ main.pc \in {"serving", "stopping"}
    /\ \E c \in DOMAIN main.fresh : main' = [main EXCEPT !.fresh = Without(@, c)]
    /\ UNCHANGED <<defaultModel, client, inflight, last, svcCalls, gwCalls, upCalls, ui>>

\* the age from which the server has closed a connection that has sent
\* nothing: while it listens the read deadline of the connection, which
\* counts from the accept; under Shutdown the age by which Shutdown has
\* looked at the connection and found it more than NewConnGrace whole
\* seconds old
ClosedFrom(pc) == IF pc = "stopping" THEN IdleClosedBy ELSE ServerReadTimeout

\* the connections of the given ages that are still open
StillOpen(pc, ages) == SelectSeq(ages, LAMBDA a : a < ClosedFrom(pc))

\* the seconds until the next instant that matters for a connection of age
\* a that has sent nothing: the instant the server closes it and, under
\* Shutdown, the last instant at which Shutdown leaves it open
ConnTimers(pc, a) ==
    { t - a : t \in { u \in {ClosedFrom(pc)}
                            \cup (IF pc = "stopping" THEN {NewConnGrace} ELSE {}) : u > a } }

\* waitForShutdown, lines 143-165: the signal arrives on quit and
\* server.Shutdown is called, which closes the listener and, of the
\* connections that have sent nothing, those more than NewConnGrace
\* seconds old
Signal(sig) ==
    /\ main.pc = "serving"
    /\ main' = [main EXCEPT !.pc = "stopping", !.quit = <<sig>>,
                            !.fresh = SelectSeq(@, LAMBDA a : a <= NewConnGrace)]
    /\ UNCHANGED <<defaultModel, client, inflight, last, svcCalls, gwCalls, upCalls, ui>>

\* server.Shutdown returning whatever the connections do
ShutdownDoneAtOnce(elapsed, open) == TRUE

\* server.Shutdown(ctx) returns when no connection is open any more (one
\* that serves a request is open until its handler has returned), or when
\* ctx is done
ShutdownDone(elapsed, open) == open = 0 \/ elapsed >= ShutdownTimeout

\* time passes up to the next instant at which a timer expires: the
\* deadline of a wait of a handler, the context of Shutdown, or an instant
\* of a connection that has sent nothing; the connections that have sent
\* nothing grow older and the server closes those that have reached the
\* age at which it does
Advance ==
    /\ main.pc \in {"serving", "stopping"}
    /\ \A p \in BagToSet(inflight) : p.waited < Limit(p)
    /\ main.pc = "stopping" => main.elapsed < ShutdownTimeout
    /\ LET ds == { Limit(p) - p.waited : p \in BagToSet(inflight) }
                 \cup (IF main.pc = "stopping" THEN {ShutdownTimeout - main.elapsed} ELSE {})
                 \cup UNION { ConnTimers(main.pc, a) : a \in Range(main.fresh) }
       IN /\ ds # {}
          /\ LET d == CHOOSE x \in ds : \A y \in ds : x <= y IN
             /\ inflight' = [q \in { Aged(p, d) : p \in BagToSet(inflight) } |->
                                 inflight[CHOOSE p \in BagToSet(inflight) : Aged(p, d) = q]]
             /\ main' = [main EXCEPT
                             !.elapsed = IF main.pc = "stopping" THEN @ + d ELSE @,
                             !.fresh = StillOpen(main.pc, [i \in DOMAIN @ |-> @[i] + d])]
    /\ UNCHANGED <<defaultModel, client, last, svcCalls, gwCalls, upCalls, ui>>

\* the requests taken here: one of each handler that calls the service
ShutdownInputs ==
    { Req("router", "", "POST", "/api/v1/chat", HiBody),
      Req("router", "", "GET", "/api/v1/models", NoBody) }

\* the outcomes of the outbound call taken here: the upstream answers, or
\* the call lasts until its timer expires
ShutdownReplies == { HTTPReply(200, OneChoice), HTTPReply(200, ModelsBody) }

\* a wait of the handler of p ends before its timer expires: the body of
\* the request arrives, httpClient.Do or io.ReadAll returns
HandlerGoesOn(p) ==
    \/ \E in \in ShutdownInputs : RequestBodyTimed(p, in) /\ Within(MaxInFlight, MaxServed)
    \/ \E reply \in ShutdownReplies : UpstreamResponseTimed(p, reply)
    \/ \E reply \in ShutdownReplies : UpstreamReplyTimed(p, reply)

\* waitForShutdown, lines 165-174, and the return of main: Shutdown has
\* returned, the process ends and with it the goroutines still running
ShutdownReturn ==
    /\ main.pc = "stopping"
    /\ ShutdownDone(main.elapsed, BagCardinality(inflight) + Len(main.fresh))
    /\ main' = [main EXCEPT !.pc = "exited", !.abandoned = BagCardinality(inflight)]
    /\ inflight' = EmptyBag
    /\ UNCHANGED <<defaultModel, client, last, svcCalls, gwCalls, upCalls, ui>>

NextShutdown ==
    \/ Connect
    \/ \E in \in Arrivals(ShutdownInputs) :
           \E now \in Times(in) : Serve(in, now) /\ Within(MaxInFlight, MaxServed)
    \/ \E p \in BagToSet(inflight) : HandlerGoesOn(p)
    \/ \E p \in BagToSet(inflight) : Expires(p)
    \/ Advance
    \/ \E sig \in Signals : Signal(sig)
    \/ Disconnect
    \/ ShutdownReturn

SpecShutdown == InitShutdown /\ [][NextShutdown]_vars

\* time passes, a wait whose timer has expired returns, and main goes on
\* when Shutdown has returned
SpecShutdownFair ==
    /\ SpecShutdown
    /\ WF_vars(Advance)
    /\ WF_vars(\E p \in BagToSet(inflight) : Expires(p))
    /\ WF_vars(ShutdownReturn)


\* the context SendMessage and GetAvailableModels add to a repository error
ServiceContext(e) ==
    IF e.call[1].op = "SendMessage" THEN "error al obtener respuesta de Groq"
    ELSE "error al obtener modelos"

\* C21: when the repository returns an error the service returns an error
\* whose text is the service's context followed by the repository's text
\* and which errors.Is matches against everything the repository's error
\* matches; the error httpClient.Do returned (deadline, cancellation,
\* refused connection) and the error of reading the body stay matched by
\* the error the handler gets, for SendMessage and GetAvailableModels.
C21_CausePreserved ==
    \A e \in Range(last) :
        (e.gwRes # <<>> /\ ~IsOk(e.gwRes[1]) /\ e.svcRes # <<>>) =>
            /\ ~IsOk(e.svcRes[1])
            /\ e.svcRes[1].err[1].text = <<Lit(ServiceContext(e))>> \o e.gwRes[1].err[1].text
            /\ e.gwRes[1].err[1].is \subseteq e.svcRes[1].err[1].is
            /\ Has(e.reply[1], "neterr") => e.reply[1].neterr.is \subseteq e.svcRes[1].err[1].is
            /\ (~Has(e.reply[1], "neterr") /\ e.reply[1].readerr # <<>>) =>
                   e.reply[1].readerr[1].is \subseteq e.svcRes[1].err[1].is

\* a models request whose outbound call met the client's deadline, and the
\* handler got an error matching context.DeadlineExceeded
C21_Witness ==
    /\ last # <<>>
    /\ last[1].call # <<>>
    /\ last[1].call[1].op = "GetAvailableModels"
    /\ last[1].reply = <<[neterr |-> ErrDeadline]>>
    /\ last[1].svcRes # <<>>
    /\ "context.DeadlineExceeded" \in last[1].svcRes[1].err[1].is
    /\ Len(last[1].svcRes[1].err[1].text) = 4

\* ------------------------------------------------------------------------
\* CreateChatCompletion against a stub upstream
\* ------------------------------------------------------------------------

\* largest value of the counters in the stub's replies (Go's int is wider)
MaxCounter == 1000000

\* requests given to CreateChatCompletion: one user message, some with a
\* system message added after it, some with temperature and max_tokens set
CodecRequests ==
    LET plain == { NewChatRequest(m, <<NewChatMessage("user", c)>>) :
                     m \in {ConfigDefaultModel, "mixtral-8x7b"}, c \in {"hi", " "} }
        longer == plain \cup { AddMessage(r, "system", "be brief") : r \in plain }
    IN longer \cup { SetMaxTokens(SetTemperature(r, 1), 5) : r \in longer }

\* what a stub reply is made of: its model, the content of its first
\* choice, whether a second choice follows, its usage counters and whether
\* it has a member the program does not know
StubReplies ==
    [model : {ConfigDefaultModel, "llama-3.1-8b-instant", ""},
     content : {"hello", ""},
     more : BOOLEAN,
     prompt : {0, 5}, completion : {0, MaxCounter}, total : {5, MaxCounter},
     unknown : BOOLEAN]

\* the JSON body of stub reply s
StubBody(s) ==
    LET doc == UpChat(s.model,
                      <<UpChoice(0, s.content)>>
                          \o (IF s.more THEN <<UpChoice(1, "second")>> ELSE <<>>),
                      UpUsage(s.prompt, s.completion, s.total))
    IN IF s.unknown THEN [obj |-> doc.obj @@ [system_fingerprint |-> JStr("fp_1")]] ELSE doc

\* CreateChatCompletion(ctx, request) with the stub answering 200 with the
\* body of s; the client keeps nothing from one call to the next, so a run
\* is one call
CallCreateChatCompletion(request, s) ==
    /\ last = <<>>
    /\ last' = <<[request |-> request,
                  out |-> CreateChatCompletionSend(client, request),
                  stub |-> s,
                  gwRes |-> CreateChatCompletionResult(HTTPReply(StatusOK, StubBody(s)))]>>
    /\ UNCHANGED <<defaultModel, client, inflight, svcCalls, gwCalls, upCalls, main, ui>>

NextCodec == \E request \in CodecRequests, s \in StubReplies : CallCreateChatCompletion(request, s)

SpecCodec == Init /\ [][NextCodec]_vars

\* C22: whatever request CreateChatCompletion encodes, the ChatResponse it
\* decodes from a stub reply has the reply's model, the content of the
\* reply's first choice and the reply's three usage counters.
C22_RoundTrip ==
    \A e \in Range(last) :
        /\ IsOk(e.gwRes)
        /\ e.gwRes.val[1].Model = e.stub.model
        /\ Len(e.gwRes.val[1].Choices) >= 1
        /\ e.gwRes.val[1].Choices[1].Message.Content = e.stub.content
        /\ GetResponseContent(e.gwRes.val[1]) = e.stub.content
        /\ e.gwRes.val[1].Usage.PromptTokens = e.stub.prompt
        /\ e.gwRes.val[1].Usage.CompletionTokens = e.stub.completion
        /\ e.gwRes.val[1].Usage.TotalTokens = e.stub.total

\* a request for one model with temperature and max_tokens set, answered
\* by a reply naming another model, with two choices, an unknown member and
\* counters that all differ
C22_Witness ==
    /\ last # <<>>
    /\ last[1].request.Model = "mixtral-8x7b"
    /\ Len(last[1].request.Messages) = 2
    /\ Len(last[1].out.body[1].obj.messages.a) = 2
    /\ last[1].request.Temperature = <<1>>
    /\ Has(last[1].out.body[1].obj, "temperature")
    /\ last[1].stub = [model |-> "llama-3.1-8b-instant", content |-> "", more |-> TRUE,
                       prompt |-> 5, completion |-> MaxCounter, total |-> 5,
                       unknown |-> TRUE]
    /\ IsOk(last[1].gwRes)
    /\ last[1].gwRes.val[1].Usage.CompletionTokens = MaxCounter

\* the step is the arrival of a request: net/http has read its header and
\* calls the handler chain
Arrives == \E in \in Arrivals(ShutdownInputs) : \E now \in Times(in) : Serve(in, now)

\* the server stops serving only when SIGINT or SIGTERM arrives; once
\* Shutdown has been called it returns when no connection is left open or
\* the 30 s have passed, handlers are abandoned only when those 30 s have
\* passed, and the process ends and takes no further step
ShutdownByContract ==
    /\ [][(main.pc = "serving" /\ main'.pc # "serving") =>
              (main'.pc = "stopping" /\ main'.quit # <<>> /\ main'.quit[1] \in Signals)]_vars
    /\ [][(main.pc = "stopping" /\ main'.pc # "stopping") =>
              /\ main'.pc = "exited"
              /\ (inflight = EmptyBag /\ main.fresh = <<>>) \/ main.elapsed = ShutdownTimeout
              /\ main'.abandoned = BagCardinality(inflight)
              /\ main'.abandoned > 0 => main.elapsed = ShutdownTimeout]_vars
    /\ [](main.elapsed <= ShutdownTimeout)
    /\ [][main.pc # "exited"]_vars
    /\ (main.pc = "stopping") ~> (main.pc = "exited")

\* C23 as stated: the server stops serving only when SIGINT or SIGTERM
\* arrives; from then on no new request is accepted, the handlers already
\* running may finish within the 30 s given to Shutdown, and the process
\* then ends.
C23_GracefulShutdown ==
    /\ ShutdownByContract
    /\ [][main.pc # "serving" => ~Arrives]_vars

\* C23 amended: the server stops serving only when SIGINT or SIGTERM
\* arrives; from then on no new connection is accepted, and a request is
\* still accepted only on a connection that was accepted before the signal
\* and has sent nothing before; Shutdown closes such a connection once it
\* is more than 5 s old, so less than 7 s after the signal, and a request
\* may still arrive 5 s after the signal; the handlers running, of requests
\* accepted before or after the signal, may finish within the 30 s given
\* to Shutdown, and the process then ends.
C23_ShutdownOfConnections ==
    /\ ShutdownByContract
    /\ [][main.pc # "serving" => Len(main'.fresh) <= Len(main.fresh)]_vars
    /\ [][(main.pc # "serving" /\ Arrives) =>
              /\ main.pc = "stopping"
              /\ main.fresh # <<>>
              /\ main.elapsed < 7
              /\ Len(main'.fresh) = Len(main.fresh) - 1]_vars
    /\ [](main.pc = "stopping" =>
              \A c \in DOMAIN main.fresh : main.elapsed <= main.fresh[c] /\ main.fresh[c] < 7)

\* the process ended on SIGTERM after the 30 s and abandoned the handler of
\* a request that had arrived 5 s after the signal and had called the
\* service
C23_Witness ==
    /\ main.pc = "exited"
    /\ main.quit = <<"SIGTERM">>
    /\ main.elapsed = ShutdownTimeout
    /\ main.late = 1
    /\ main.lateAt = 5
    /\ main.abandoned = 1
    /\ svcCalls = 1
    /\ upCalls = 1

\* ------------------------------------------------------------------------
\* State machine of the App component in the browser
\* ------------------------------------------------------------------------

\* cap on the number of messages sent
MaxSubmits == 2

\* what the user types into the input field
UITexts == { <<>>, <<"\r", "U+00A0">>, <<" ", "h", "i", " ">> }

\* the texts the suggestion cards pass to handleSuggestion, by their words
\* and blanks
Suggestions ==
    { <<"Explica", " ", "qué", " ", "es", " ", "la", " ", "arquitectura", " ", "hexagonal">>,
      <<"¿Cuáles", " ", "son", " ", "las", " ", "ventajas", " ", "de", " ", "usar", " ", "Go?">>,
      <<"Escribe", " ", "un", " ", "poema", " ", "corto", " ", "sobre", " ", "la", " ",
        "tecnología">> }

\* how a call of sendMessageToAPI ends: the promise of fetch is rejected,
\* or there is a response, which is one of the server or of something
\* between the browser and the server, or one whose body does not arrive
UIOutcomes ==
    { [rejected |-> "Failed to fetch"],
      HandleChatEnd(CreateChatCompletionResult(HTTPReply(StatusOK, OneChoice))),
      writeErrorResponse(ErrEmptyMessage.text, StatusBadRequest),
      [status |-> StatusNotFound, body |-> [raw |-> "404 page not found\n"]],
      [status |-> StatusOK, body |-> [raw |-> "<html>"]],
      [status |-> StatusOK, body |-> [aborted |-> "network error"]],
      [status |-> 502, body |-> [success |-> FALSE]] }

\* the browser has dispatched event to the component, which is in state u
\* when the handler is done
Handled(u, event) == u @@ [event |-> event]

InitUI ==
    /\ defaultModel = ConfigDefaultModel
    /\ client = [baseURL |-> ConfigBaseURL, apiKey |-> "gsk_test", timeout |-> ConfigHTTPTimeout]
    /\ inflight = EmptyBag
    /\ last = <<>>
    /\ svcCalls = 0
    /\ gwCalls = 0
    /\ upCalls = 0
    /\ main = Serving
    /\ \E engine \in Engines : ui = Handled([NewApp EXCEPT !.engine = engine], "render")

\* the state of the component without the event that led to it
Component(u) == [f \in DOMAIN NewApp |-> u[f]]

\* the user types: the textarea is disabled while loading
Type(value) ==
    /\ ~ui.isLoading
    /\ ui' = Handled(handleInputChange(Component(ui), value), "change")
    /\ UNCHANGED <<defaultModel, client, inflight, last, svcCalls, gwCalls, upCalls, main>>

\* the user clicks a suggestion card, shown while there is no message
Suggest(text) ==
    /\ ui.messages = <<>>
    /\ ui' = Handled(handleSuggestion(Component(ui), text), "suggestion")
    /\ UNCHANGED <<defaultModel, client, inflight, last, svcCalls, gwCalls, upCalls, main>>

\* the user picks a model: the select is disabled while loading
SelectModel(model) ==
    /\ ~ui.isLoading
    /\ ui' = Handled([Component(ui) EXCEPT !.selectedModel = model], "select")
    /\ UNCHANGED <<defaultModel, client, inflight, last, svcCalls, gwCalls, upCalls, main>>

\* the user submits: by the send button, which is disabled while loading
\* and while the input is blank, or by Enter in the textarea, which is
\* disabled while loading
Submit(by) ==
    /\ ~ui.isLoading
    /\ by = "button" => Trim(ui.inputMessage) # <<>>
    /\ handleSubmit(Component(ui)).posts <= MaxSubmits
    /\ ui' = Handled(handleSubmit(Component(ui)), by)
    /\ UNCHANGED <<defaultModel, client, inflight, last, svcCalls, gwCalls, upCalls, main>>

\* the promise of fetch settles (sendMessageToAPI, line 133): rejected, and
\* handleSubmit goes on in its catch, or resolved with the response of o,
\* and sendMessageToAPI waits again, in response.json()
Settle(o) ==
    /\ ui.calls # <<>>
    /\ ui' = IF Has(o, "rejected")
             THEN Handled(handleSubmitEnd(Component(ui), o), "settled")
             ELSE Handled(sendMessageToAPIResponse(Component(ui), o.status), "response")
    /\ UNCHANGED <<defaultModel, client, inflight, last, svcCalls, gwCalls, upCalls, main>>

\* the promise of response.json() settles (sendMessageToAPI, line 146 or
\* 151) with what it made of the body of o, and handleSubmit goes on after
\* its await
Parse(o) ==
    /\ ui.reading # <<>>
    /\ ~Has(o, "rejected")
    /\ o.status = ui.reading[1]
    /\ ui' = Handled(handleSubmitEnd(Component(ui), o), "settled")
    /\ UNCHANGED <<defaultModel, client, inflight, last, svcCalls, gwCalls, upCalls, main>>

\* the user clicks the trash button, shown while there are messages, and
\* answers the confirmation
Clear(confirmed) ==
    /\ ui.messages # <<>>
    /\ ui' = Handled(handleClearChat(Component(ui), confirmed), "clear")
    /\ UNCHANGED <<defaultModel, client, inflight, last, svcCalls, gwCalls, upCalls, main>>

NextUI ==
    \/ \E value \in UITexts : Type(value)
    \/ \E text \in Suggestions : Suggest(text)
    \/ \E i \in DOMAIN AVAILABLE_MODELS : SelectModel(AVAILABLE_MODELS[i])
    \/ \E by \in {"button", "enter"} : Submit(by)
    \/ \E o \in UIOutcomes : Settle(o)
    \/ \E o \in UIOutcomes : Parse(o)
    \/ \E confirmed \in BOOLEAN : Clear(confirmed)

SpecUI == InitUI /\ [][NextUI]_vars

\* every promise settles
SpecUIFair ==
    /\ SpecUI
    /\ WF_vars(\E o \in UIOutcomes : Settle(o))
    /\ WF_vars(\E o \in UIOutcomes : Parse(o))

SubmitEvents == {"button", "enter"}
Blank(text) == Trim(text) = <<>>

\* C25: a submit, by the button or by Enter, of an input that is empty or
\* holds only whitespace leaves the messages, the fetches issued, loading
\* and the error as they were.
C25_BlankNotSent ==
    [][(ui'.event \in SubmitEvents /\ Blank(ui.inputMessage)) =>
           /\ ui'.messages = ui.messages
           /\ ui'.calls = ui.calls
           /\ ui'.posts = ui.posts
           /\ ui'.isLoading = ui.isLoading
           /\ ui'.error = ui.error]_vars

\* Enter pressed on an input of whitespace while an error is shown and the
\* conversation has messages
C25_Witness ==
    /\ ui.event = "enter"
    /\ ui.inputMessage = <<"\r", "U+00A0">>
    /\ ui.error # <<>>
    /\ Len(ui.messages) = 2
    /\ ui.posts = 1
    /\ ~ui.isLoading

\* the calls of sendMessageToAPI that have not ended: waiting for fetch or
\* for response.json()
Unsettled(u) == Len(u.calls) + Len(u.reading)

\* C24: a submit of an input that is not blank appends one user message
\* with the input as typed, clears the input, turns loading on and issues
\* one POST to the chat endpoint with the input and the selected model;
\* when that call ends, however it ends, one assistant message is appended
\* and loading is turned off; nothing else appends an assistant message or
\* issues a fetch, loading is on exactly while a call has not ended, at
\* most one call has not ended, and loading is eventually off again.
C24_InteractionFlow ==
    /\ [][(ui'.event \in SubmitEvents /\ ~Blank(ui.inputMessage)) =>
              /\ ui'.messages = Append(ui.messages, [role |-> "user", content |-> ui.inputMessage])
              /\ ui'.inputMessage = <<>>
              /\ ui'.isLoading
              /\ ui'.posts = ui.posts + 1
              /\ ui'.calls = Append(ui.calls,
                                    [method |-> "POST",
                                     url |-> "http://localhost:8080/api/v1/chat",
                                     header |-> [ContentType |-> "application/json"],
                                     body |-> [message |-> ui.inputMessage,
                                               model |-> ui.selectedModel]])]_vars
    /\ [][Unsettled(ui') < Unsettled(ui) =>
              /\ Unsettled(ui') = Unsettled(ui) - 1
              /\ Len(ui'.messages) = Len(ui.messages) + 1
              /\ SubSeq(ui'.messages, 1, Len(ui.messages)) = ui.messages
              /\ ui'.messages[Len(ui'.messages)].role = "assistant"
              /\ ~ui'.isLoading
              /\ ui'.posts = ui.posts]_vars
    /\ [][Unsettled(ui') >= Unsettled(ui) =>
              \A i \in DOMAIN ui'.messages :
                  ui'.messages[i].role = "assistant" =>
                      i \in DOMAIN ui.messages /\ ui.messages[i].role = "assistant"]_vars
    /\ [][ui'.event \notin SubmitEvents => ui'.posts = ui.posts]_vars
    /\ [](ui.isLoading <=> Unsettled(ui) > 0)
    /\ [](Unsettled(ui) <= 1)
    /\ ui.isLoading ~> ~ui.isLoading

\* a second exchange answered by the server after a first one that failed,
\* the input sent as typed
C24_Witness ==
    /\ ui.event = "settled"
    /\ ui.posts = 2
    /\ Len(ui.messages) = 4
    /\ ui.messages[2].role = "assistant"
    /\ Has(ui.messages[2], "isError")
    /\ ui.messages[3] = [role |-> "user", content |-> <<" ", "h", "i", " ">>]
    /\ ui.messages[4].role = "assistant"
    /\ ui.messages[4].content = <<"hello">>
    /\ ~ui.isLoading

\* C30 as stated: every assistant entry of the message list comes right
\* after a user entry.
C30_AssistantFollowsUser ==
    \A i \in DOMAIN ui.messages :
        ui.messages[i].role = "assistant" => (i > 1 /\ ui.messages[i - 1].role = "user")

\* the chat requests that got as far as the repository, in flight or
\* completed: what the client sent without temperature and max_tokens, the
\* request given to the repository and the outbound request
Forwarded ==
    { [sent |-> [f \in DOMAIN x.in.body.obj \ {"temperature", "max_tokens"} |-> x.in.body.obj[f]],
       greq |-> x.greq[1],
       out |-> x.out[1]] :
        x \in { y \in BagToSet(inflight) \cup Range(last) :
                    ChatRequestIn(y.in) /\ y.greq # <<>> /\ y.out # <<>> } }

\* C26: the request given to the repository for an accepted chat request
\* has no temperature and max_tokens 0, the body sent upstream has neither
\* member, and two accepted requests that differ only in temperature and
\* max_tokens lead to the same request and the same outbound request.
C26_NotForwarded ==
    /\ \A x \in Forwarded :
           /\ x.greq.Temperature = <<>>
           /\ x.greq.MaxTokens = 0
           /\ ~Has(x.out.body[1].obj, "temperature")
           /\ ~Has(x.out.body[1].obj, "max_tokens")
    /\ \A x, y \in Forwarded : x.sent = y.sent => (x.greq = y.greq /\ x.out = y.out)

\* a request with temperature 2 completed while one with max_tokens 5 is in
\* flight, both with the same outbound request
C26_Witness ==
    /\ last # <<>>
    /\ last[1].in.body = [obj |-> Msg("hi") @@ [temperature |-> JNum(2)]]
    /\ last[1].reply # <<>>
    /\ \E p \in BagToSet(inflight) :
           /\ p.in.body = [obj |-> Msg("hi") @@ [max_tokens |-> JNum(5)]]
           /\ p.out = last[1].out
           /\ p.greq = last[1].greq

\* C27: the model of every 200 reply of the chat handler is the model
\* member of the upstream's reply, as the repository decoded it, whether or
\* not it is the model the request named or the default model.
C27_UpstreamModel ==
    \A e \in Range(last) :
        (e.target = "HandleChat" /\ e.resp # <<>> /\ Status(e) = StatusOK) =>
            /\ Answered(e)
            /\ e.resp[1].body.model = StrField(e.reply[1].body.obj, "model")
            /\ e.resp[1].body.model = e.gwRes[1].val[1].Model

\* a request naming mixtral-8x7b answered by an upstream that names
\* llama-3.1-8b-instant: the client is told llama-3.1-8b-instant
C27_Witness ==
    /\ last # <<>>
    /\ last[1].in.body = [obj |-> Msg("hi") @@ [model |-> JStr("mixtral-8x7b")]]
    /\ last[1].greq # <<>>
    /\ last[1].greq[1].Model = "mixtral-8x7b"
    /\ last[1].reply = <<HTTPReply(200, OtherModel)>>
    /\ Status(last[1]) = StatusOK
    /\ last[1].resp[1].body.model = "llama-3.1-8b-instant"

\* the chat requests whose body decoded, in flight or completed
Decoded ==
    { x \in BagToSet(inflight) \cup Range(last) :
          ChatRequestIn(x.in) /\ x.in.body # Unread /\ ~DecodeFails(x.in.body) }

\* C28: a chat request is refused as empty exactly when its message has
\* length 0; a message of whitespace in an otherwise valid body passes the
\* handler and the service and is the content of the single message sent
\* upstream, character for character.
C28_LengthOnly ==
    \A x \in Decoded :
        LET m == StrField(x.in.body.obj, "message") IN
        /\ m = "" =>
               /\ x.call = <<>>
               /\ x.greq = <<>>
               /\ Has(x, "resp") =>
                      /\ Status(x) = StatusBadRequest
                      /\ x.resp[1].body.error = ErrEmptyMessage.text
        /\ (m # "" /\ Has(x, "resp") /\ Status(x) = StatusBadRequest) =>
               x.resp[1].body.error # ErrEmptyMessage.text
        /\ (m # "" /\ ~InvalidBody(x.in.body)) =>
               /\ x.call # <<>>
               /\ x.call[1].message = m
               /\ x.greq # <<>>
               /\ x.greq[1].Messages = <<[Role |-> "user", Content |-> m]>>
               /\ x.out[1].body[1].obj.messages.a[1].o.content.s = m

\* a message of one blank relayed: the upstream got the blank and the
\* client a 200
C28_Witness ==
    /\ last # <<>>
    /\ last[1].in = Req("router", "", "POST", "/api/v1/chat", [obj |-> Msg(" ")])
    /\ last[1].call # <<>>
    /\ last[1].call[1].message = " "
    /\ last[1].out[1].body[1].obj.messages.a[1].o.content.s = " "
    /\ last[1].resp # <<>>
    /\ Status(last[1]) = StatusOK

\* the environment config.Load reads, after godotenv.Load
Loaded == DotenvLoad(main.env, main.file)

\* variable key is not set, or set to the empty string
Empty(key) == Loaded[key] \in {<<>>, <<"">>}

\* C29: when config.Load has succeeded the API key, the base URL, the port
\* and the default model of the configuration are non-empty and the timeout
\* is positive, a variable set to the empty string having taken its
\* default; no constructor of main panics, and no request fails with the
\* empty-model error.
C29_LoadedConfig ==
    /\ main.cfg # <<>> =>
           LET c == main.cfg[1] IN
           /\ c.GroqAPIKey # "" /\ c.GroqBaseURL # "" /\ c.Port # "" /\ c.DefaultModel # ""
           /\ c.HTTPTimeout > 0
           /\ ~Empty("GROQ_API_KEY") /\ c.GroqAPIKey = Loaded["GROQ_API_KEY"][1]
           /\ c.Port = (IF Empty("PORT") THEN "8080" ELSE Loaded["PORT"][1])
           /\ c.GroqBaseURL = (IF Empty("GROQ_BASE_URL") THEN "https://api.groq.com/openai/v1"
                               ELSE Loaded["GROQ_BASE_URL"][1])
           /\ c.DefaultModel = (IF Empty("DEFAULT_MODEL") THEN "llama-3.3-70b-versatile"
                                ELSE Loaded["DEFAULT_MODEL"][1])
    /\ main.pc # "panicked"
    /\ main.pc \in {"built", "serving"} =>
           /\ defaultModel = main.cfg[1].DefaultModel
           /\ client.apiKey = main.cfg[1].GroqAPIKey
           /\ client.baseURL = main.cfg[1].GroqBaseURL
    /\ \A e \in Range(last) :
           e.svcRes # <<>> => (IsOk(e.svcRes[1]) \/ e.svcRes[1].err[1] # AppErrEmptyModel)

\* the server started with PORT, GROQ_BASE_URL and DEFAULT_MODEL set to
\* the empty string has relayed a chat request without model under the
\* default model
C29_Witness ==
    /\ main.pc = "serving"
    /\ main.env["PORT"] = <<"">>
    /\ main.env["GROQ_BASE_URL"] = <<"">>
    /\ main.env["DEFAULT_MODEL"] = <<"">>
    /\ main.cfg[1].Port = "8080"
    /\ last # <<>>
    /\ last[1].in = Req("router", "", "POST", "/api/v1/chat", HiBody)
    /\ last[1].greq # <<>>
    /\ last[1].greq[1].Model = "llama-3.3-70b-versatile"
    /\ last[1].resp # <<>>
    /\ Status(last[1]) = StatusOK

====
